---- MODULE Spec2Model ----
(***************************************************************************)
(* A model of the selector composer of reselect (src/src/index.ts):        *)
(* createSelectorCreator / createSelector, the output selector it returns  *)
(* (dependenciesChecker wrapped by defaultMemoize, the memoized result     *)
(* function, the input stability check) and the output selector fields.    *)
(* defaultMemoize itself lives in ./defaultMemoize, which is not part of   *)
(* the sources at hand; it is modelled from section 4.2 of the             *)
(* specification.                                                          *)
(***************************************************************************)
EXTENDS Integers, Sequences, FiniteSets, TLC

(***************************************************************************)
(* JavaScript values.  Every value is a record [t, v]: t is the kind, v a  *)
(* number (the value of a primitive, the identity of an object or of a     *)
(* function).  Two values are === exactly when the records are equal.      *)
(***************************************************************************)
Num(n) == [t |-> "number", v |-> n]
Str(n) == [t |-> "string", v |-> n]
Obj(n) == [t |-> "object", v |-> n]
Fn(n) == [t |-> "function", v |-> n]
Undefined == [t |-> "undefined", v |-> 0]
Null == [t |-> "null", v |-> 0]

\* typeof x
TypeOf(x) == IF x.t \in {"null", "array"} THEN "object" ELSE x.t

(***************************************************************************)
(* The objects that exist before any call: four states, two props objects  *)
(* and two states that hold a nested object.  States 1 and 2 are distinct  *)
(* references with the same content; state 4 holds a string and has no     *)
(* field b; states 7 and 8 are distinct references that both hold state 1  *)
(* in their fields a and b.                                                *)
(***************************************************************************)
StaticObjects ==
  << [a |-> Num(1), b |-> Num(2), c |-> Undefined],
     [a |-> Num(1), b |-> Num(2), c |-> Undefined],
     [a |-> Num(2), b |-> Num(2), c |-> Undefined],
     [a |-> Str(1), b |-> Undefined, c |-> Undefined],
     [a |-> Undefined, b |-> Undefined, c |-> Num(100)],
     [a |-> Undefined, b |-> Undefined, c |-> Num(200)],
     [a |-> Obj(1), b |-> Obj(1), c |-> Undefined],
     [a |-> Obj(1), b |-> Obj(1), c |-> Undefined] >>

NumStatic == Len(StaticObjects)

\* The argument lists a caller passes to an output selector.
ArgLists ==
  { <<Obj(1)>>, <<Obj(2)>>, <<Obj(3)>>, <<Obj(4)>>, <<Obj(7)>>,
    <<Obj(1), Obj(5)>>, <<Obj(2), Obj(5)>>, <<Obj(1), Obj(6)>> }

\* An error raised by the library or by a user function.
NoError == [kind |-> "none", message |-> ""]
Error(msg) == [kind |-> "Error", message |-> msg]
TypeError(msg) == [kind |-> "TypeError", message |-> msg]

(***************************************************************************)
(* Equality checks a memoizer can be configured with.                      *)
(***************************************************************************)
\* defaultEqualityCheck: a === b
defaultEqualityCheck(a, b) == a = b

\* (a, b) => typeof a === typeof b, the override of the tests
typeofEquals(a, b) == TypeOf(a) = TypeOf(b)

EqualityCheck(eq, a, b) ==
  IF eq = "typeof" THEN typeofEquals(a, b) ELSE defaultEqualityCheck(a, b)

(***************************************************************************)
(* defaultMemoize(func, equalityCheckOrOptions): the bounded-history       *)
(* memoizer.  An option value is [kind, eq, maxSize, resEq]: kind          *)
(* "undefined" (nothing passed), "function" (an equality check was passed) *)
(* or "object" (an options object; a field left out is "undefined" / 0).   *)
(* A cache is the list of its entries [key, value], most recent first.     *)
(***************************************************************************)
NoOption == [kind |-> "undefined", eq |-> "undefined", maxSize |-> 0, resEq |-> "undefined"]
EqOption(eq) == [kind |-> "function", eq |-> eq, maxSize |-> 0, resEq |-> "undefined"]
ObjOption(eq, maxSize, resEq) == [kind |-> "object", eq |-> eq, maxSize |-> maxSize, resEq |-> resEq]

\* The options in force: equalityCheck (default identity), maxSize
\* (default 1), resultEqualityCheck (default none).
ProvidedOptions(options) ==
  LET first == IF options = <<>> THEN NoOption ELSE Head(options)
  IN  [ equalityCheck |-> IF first.eq = "undefined" THEN "identity" ELSE first.eq,
        maxSize |-> IF first.kind = "object" /\ first.maxSize > 0 THEN first.maxSize ELSE 1,
        resultEqualityCheck |-> IF first.kind = "object" THEN first.resEq ELSE "undefined" ]

EmptyCache == <<>>

\* Same length and every position equal under the equality check.
ArgsEqual(eq, prev, next) ==
  /\ Len(prev) = Len(next)
  /\ \A k \in 1..Len(prev) : EqualityCheck(eq, prev[k], next[k])

\* The position of the most recent entry whose key equals args, or 0.
CacheFind(cache, eq, args) ==
  LET hits == { k \in 1..Len(cache) : ArgsEqual(eq, cache[k].key, args) }
  IN  IF hits = {} THEN 0 ELSE CHOOSE k \in hits : \A j \in hits : k <= j

RemoveAt(s, k) == SubSeq(s, 1, k - 1) \o SubSeq(s, k + 1, Len(s))

\* A variant of MemoLookup that leaves a hit entry where it is.
MemoLookupInPlace(cache, options, args) ==
  LET o == ProvidedOptions(options)
      k == CacheFind(cache, o.equalityCheck, args)
  IN  IF k = 0
      THEN [hit |-> FALSE, value |-> Undefined, cache |-> cache]
      ELSE [hit |-> TRUE, value |-> cache[k].value, cache |-> cache]

\* A lookup: a hit returns the stored value and promotes the entry to most recent.
MemoLookup(cache, options, args) ==
  LET o == ProvidedOptions(options)
      k == CacheFind(cache, o.equalityCheck, args)
  IN  IF k = 0
      THEN [hit |-> FALSE, value |-> Undefined, cache |-> cache]
      ELSE [hit |-> TRUE, value |-> cache[k].value,
            cache |-> <<cache[k]>> \o RemoveAt(cache, k)]

\* A variant of MemoStore that compares the new result with the most recent one only.
MemoStoreMostRecentOnly(cache, options, args, result) ==
  LET o == ProvidedOptions(options)
      same == { k \in 1..Len(cache) :
                  /\ k = 1
                  /\ o.resultEqualityCheck # "undefined"
                  /\ EqualityCheck(o.resultEqualityCheck, cache[k].value, result) }
      value == IF same = {} THEN result ELSE cache[1].value
      all == <<[key |-> args, value |-> value]>> \o cache
  IN  [value |-> value,
       cache |-> IF Len(all) > o.maxSize THEN SubSeq(all, 1, o.maxSize) ELSE all]

\* After a miss: reuse an old result that the result equality check accepts,
\* put the entry first, evict beyond maxSize.
MemoStore(cache, options, args, result) ==
  LET o == ProvidedOptions(options)
      same == { k \in 1..Len(cache) :
                  /\ o.resultEqualityCheck # "undefined"
                  /\ EqualityCheck(o.resultEqualityCheck, cache[k].value, result) }
      value == IF same = {} THEN result
               ELSE cache[CHOOSE k \in same : \A j \in same : k <= j].value
      all == <<[key |-> args, value |-> value]>> \o cache
  IN  [value |-> value,
       cache |-> IF Len(all) > o.maxSize THEN SubSeq(all, 1, o.maxSize) ELSE all]

\* A variant of MemoClear that keeps the entries.
MemoClearKeeps(cache) == cache

\* clearCache()
MemoClear(cache) == EmptyCache

(***************************************************************************)
(* The heap of objects made during the calls, and of the assignments to    *)
(* fields of objects.  A made object is [names, vals, of]: its field names *)
(* and their values when made, of = 0; its identity is NumStatic plus its  *)
(* position in the heap.  An assignment x[name] = v is [names, vals, of]   *)
(* with the one name, the one value and of the identity of x.              *)
(***************************************************************************)
Alloc(heap, names, vals) ==
  [heap |-> Append(heap, [names |-> names, vals |-> vals, of |-> 0]),
   value |-> Obj(NumStatic + Len(heap) + 1)]

\* x[name] = v
Assign(heap, x, name, v) == Append(heap, [names |-> <<name>>, vals |-> <<v>>, of |-> x.v])

\* The positions of the assignments to x[name], in the order they were made.
Assigned(heap, x, name) ==
  { k \in 1..Len(heap) : heap[k].of = x.v /\ heap[k].names = <<name>> }

Arg(args, k) == IF k <= Len(args) THEN args[k] ELSE Undefined

\* x[name]: reading a field of undefined or null raises a TypeError.
GetField(heap, x, name) ==
  IF x.t \in {"undefined", "null"}
  THEN [error |-> TypeError("Cannot read properties of " \o x.t), value |-> Undefined]
  ELSE IF x.t # "object"
  THEN [error |-> NoError, value |-> Undefined]
  ELSE IF Assigned(heap, x, name) # {}
  THEN [error |-> NoError,
        value |-> heap[CHOOSE k \in Assigned(heap, x, name) :
                         \A j \in Assigned(heap, x, name) : j <= k].vals[1]]
  ELSE IF x.v <= NumStatic
  THEN [error |-> NoError,
        value |-> IF name \in DOMAIN StaticObjects[x.v]
                  THEN StaticObjects[x.v][name] ELSE Undefined]
  ELSE LET o == heap[x.v - NumStatic]
           at == { k \in 1..Len(o.names) : o.names[k] = name }
       IN  [error |-> NoError,
            value |-> IF at = {} THEN Undefined ELSE o.vals[CHOOSE k \in at : TRUE]]

(***************************************************************************)
(* The functions a caller supplies: input selectors and result functions   *)
(* as the tests and the README write them.                                 *)
(***************************************************************************)
selectA == Fn(1)        \* const selectA = state => state.a
selectB == Fn(2)        \* state => state.b
selectPropsC == Fn(3)   \* (state, props) => props.c
selectFresh == Fn(4)    \* state => ({ a: state.a, b: state.b })
identity == Fn(5)       \* a => a
makeObject == Fn(6)     \* (sub, x) => ({ sub, x })
readValue == Fn(7)      \* sub => sub.value
selector1 == Fn(8)      \* const selector1 = createSelector(...), an output selector

\* The mappings given to createStructuredSelector: each a list of [key, selector]
\* in key order ({x: state => state.a, y: state => state.b}, {x: state => state.a}, {}).
SelectorMaps ==
  << << [key |-> "x", selector |-> selectA], [key |-> "y", selector |-> selectB] >>,
     << [key |-> "x", selector |-> selectA] >>,
     << >> >>

\* Object.keys(selectors) of mapping i
ObjectKeys(i) == [k \in 1..Len(SelectorMaps[i]) |-> SelectorMaps[i][k].key]

\* The result function createStructuredSelector makes for mapping i.
StructuredResultFunc(i) == Fn(10 + i)
IsStructuredResultFunc(f) == f.t = "function" /\ f.v > 10

\* A variant of Compose that binds the values to the keys in reverse order.
ComposeReversed(objectKeys, values, heap) ==
  Alloc(heap, objectKeys,
        [k \in 1..Len(objectKeys) |->
           IF Len(values) - k + 1 >= 1 THEN values[Len(values) - k + 1] ELSE Undefined])

\* values.reduce((composition, value, index) => { composition[objectKeys[index]] = value;
\* return composition }, {})
Compose(objectKeys, values, heap) ==
  Alloc(heap, SubSeq(objectKeys, 1, Len(values)), values)

\* Function.prototype.name: only selectA is bound to a name.
FunctionName(f) == IF f = selectA THEN "selectA" ELSE ""

\* f.apply(null, args): [error, value, heap].
Apply(f, args, heap) ==
  LET got(r) == [error |-> r.error, value |-> r.value, heap |-> heap]
  IN  CASE f = selectA -> got(GetField(heap, Arg(args, 1), "a"))
        [] f = selectB -> got(GetField(heap, Arg(args, 1), "b"))
        [] f = selectPropsC -> got(GetField(heap, Arg(args, 2), "c"))
        [] f = selectFresh ->
             LET r == GetField(heap, Arg(args, 1), "a")
                 q == GetField(heap, Arg(args, 1), "b")
                 o == Alloc(heap, <<"a", "b">>, <<r.value, q.value>>)
             IN  IF r.error # NoError THEN got(r)
                 ELSE [error |-> NoError, value |-> o.value, heap |-> o.heap]
        [] f = identity -> [error |-> NoError, value |-> Arg(args, 1), heap |-> heap]
        [] f = readValue -> got(GetField(heap, Arg(args, 1), "value"))
        [] f = makeObject ->
             LET o == Alloc(heap, <<"sub", "x">>, <<Arg(args, 1), Arg(args, 2)>>)
             IN  [error |-> NoError, value |-> o.value, heap |-> o.heap]
        [] IsStructuredResultFunc(f) ->
             LET o == Compose(ObjectKeys(f.v - 10), args, heap)
             IN  [error |-> NoError, value |-> o.value, heap |-> o.heap]

(***************************************************************************)
(* The arguments of createSelector.  An item is [t, v, items, opts]: a     *)
(* function, a primitive, null, an array of items, or an options object.   *)
(***************************************************************************)
NoMemoizeOptions == [present |-> FALSE, isArray |-> FALSE, list |-> <<>>]
OneMemoizeOption(o) == [present |-> TRUE, isArray |-> FALSE, list |-> <<o>>]
MemoizeOptionsArray(l) == [present |-> TRUE, isArray |-> TRUE, list |-> l]

Options(memoizeOptions, inputStabilityCheck) ==
  [memoizeOptions |-> memoizeOptions, inputStabilityCheck |-> inputStabilityCheck]
EmptyOptions == Options(NoMemoizeOptions, "undefined")

FnItem(f) == [t |-> "function", v |-> f.v, items |-> <<>>, opts |-> EmptyOptions]
PrimItem(t) == [t |-> t, v |-> 0, items |-> <<>>, opts |-> EmptyOptions]
ArrItem(items) == [t |-> "array", v |-> 0, items |-> items, opts |-> EmptyOptions]
OptItem(opts) == [t |-> "object", v |-> 0, items |-> <<>>, opts |-> opts]
\* The object SelectorMaps[i], as the first argument of createStructuredSelector.
MapItem(i) == [t |-> "object", v |-> i, items |-> <<>>, opts |-> EmptyOptions]

\* funcs.pop(): the last element (undefined when there is none) and the rest.
Pop(funcs) ==
  IF funcs = <<>> THEN [value |-> PrimItem("undefined"), rest |-> <<>>]
  ELSE [value |-> funcs[Len(funcs)], rest |-> SubSeq(funcs, 1, Len(funcs) - 1)]

RECURSIVE Join(_, _)
\* array.join(sep)
Join(strs, sep) ==
  IF strs = <<>> THEN ""
  ELSE IF Len(strs) = 1 THEN strs[1]
  ELSE strs[1] \o sep \o Join(Tail(strs), sep)

(***************************************************************************)
(* createSelectorCreator(memoize, ...memoizeOptionsFromArgs) and the       *)
(* createSelector(...funcs) it returns.                                    *)
(***************************************************************************)
\* An output selector: what createSelector closes over.  selector1 is the
\* output selector made before this one, which dependencies may hold: empty,
\* or what that selector closes over.
NoSelector ==
  [ built |-> FALSE,
    resultFunc |-> Undefined,
    dependencies |-> <<>>,
    finalMemoizeOptions |-> <<>>,
    inputStabilityCheck |-> "undefined",
    recomputations |-> 0,
    lastResult |-> Undefined,
    firstRun |-> TRUE,
    selectorCache |-> EmptyCache,
    resultFuncCache |-> EmptyCache,
    makeAnObjectCache |-> EmptyCache,
    selector1 |-> <<>> ]

\* typeof dep === 'function' ? `function ${dep.name || 'unnamed'}()` : typeof dep
DependencyType(dep) ==
  IF TypeOf(dep) = "function"
  THEN "function " \o (IF FunctionName(Fn(dep.v)) = "" THEN "unnamed"
                       ELSE FunctionName(Fn(dep.v))) \o "()"
  ELSE TypeOf(dep)

DependencyTypes(dependencies) ==
  Join([k \in 1..Len(dependencies) |-> DependencyType(dependencies[k])], ", ")

\* A variant of getDependencies that reports only the entries that are not functions.
getDependenciesOffending(funcs) ==
  LET dependencies == IF funcs # <<>> /\ funcs[1].t = "array" THEN funcs[1].items ELSE funcs
      offending == SelectSeq(dependencies, LAMBDA dep : TypeOf(dep) # "function")
  IN  IF offending # <<>>
      THEN [error |-> Error("createSelector expects all input-selectors to be functions, but received the following types: ["
                            \o DependencyTypes(offending) \o "]"),
            dependencies |-> <<>>]
      ELSE [error |-> NoError,
            dependencies |-> [k \in 1..Len(dependencies) |-> Fn(dependencies[k].v)]]

\* A variant of getDependencies that wraps the first inline argument in an array.
getDependenciesFirstOnly(funcs) ==
  LET dependencies == IF funcs # <<>> /\ funcs[1].t = "array" THEN funcs[1].items
                      ELSE IF funcs = <<>> THEN <<>> ELSE <<funcs[1]>>
  IN  IF \E k \in 1..Len(dependencies) : TypeOf(dependencies[k]) # "function"
      THEN [error |-> Error("createSelector expects all input-selectors to be functions, but received the following types: ["
                            \o DependencyTypes(dependencies) \o "]"),
            dependencies |-> <<>>]
      ELSE [error |-> NoError,
            dependencies |-> [k \in 1..Len(dependencies) |-> Fn(dependencies[k].v)]]

\* getDependencies(funcs): [error, dependencies]
getDependencies(funcs) ==
  LET dependencies == IF funcs # <<>> /\ funcs[1].t = "array" THEN funcs[1].items ELSE funcs
  IN  IF \E k \in 1..Len(dependencies) : TypeOf(dependencies[k]) # "function"
      THEN [error |-> Error("createSelector expects all input-selectors to be functions, but received the following types: ["
                            \o DependencyTypes(dependencies) \o "]"),
            dependencies |-> <<>>]
      ELSE [error |-> NoError,
            dependencies |-> [k \in 1..Len(dependencies) |-> Fn(dependencies[k].v)]]

\* A variant of ExpectsOutputFunction that leaves the received type out.
ExpectsOutputFunctionUntyped(resultFunc) ==
  Error("createSelector expects an output function after the inputs")

\* new Error(`createSelector expects an output function after the inputs, but
\* received: [${typeof resultFunc}]`)
ExpectsOutputFunction(resultFunc) ==
  Error("createSelector expects an output function after the inputs, but received: ["
        \o TypeOf(resultFunc) \o "]")

\* A variant of createSelector that prefers the options of createSelectorCreator.
createSelectorCreatorOptionsFirst(memoizeOptionsFromArgs, funcs) ==
  LET last == Pop(funcs)
      isOptions == TypeOf(last.value) = "object"
      directlyPassedOptions == IF isOptions THEN last.value ELSE OptItem(EmptyOptions)
      popped == IF isOptions THEN Pop(last.rest) ELSE last
      resultFunc == popped.value
      memoizeOptions == IF memoizeOptionsFromArgs # <<>>
                           \/ ~directlyPassedOptions.opts.memoizeOptions.present
                        THEN MemoizeOptionsArray(memoizeOptionsFromArgs)
                        ELSE directlyPassedOptions.opts.memoizeOptions
      finalMemoizeOptions == IF memoizeOptions.isArray THEN memoizeOptions.list
                             ELSE <<memoizeOptions.list[1]>>
      deps == getDependencies(popped.rest)
  IN  IF TypeOf(resultFunc) # "function"
      THEN [error |-> ExpectsOutputFunction(resultFunc), selector |-> NoSelector]
      ELSE IF directlyPassedOptions.t = "null"
      THEN [error |-> TypeError("Cannot destructure 'directlyPassedOptions' as it is null"),
            selector |-> NoSelector]
      ELSE IF deps.error # NoError
      THEN [error |-> deps.error, selector |-> NoSelector]
      ELSE [error |-> NoError,
            selector |-> [NoSelector EXCEPT
                            !.built = TRUE,
                            !.resultFunc = Fn(resultFunc.v),
                            !.dependencies = deps.dependencies,
                            !.finalMemoizeOptions = finalMemoizeOptions,
                            !.inputStabilityCheck = directlyPassedOptions.opts.inputStabilityCheck]]

\* createSelector(...funcs): [error, selector]
createSelector(memoizeOptionsFromArgs, funcs) ==
  LET last == Pop(funcs)
      isOptions == TypeOf(last.value) = "object"
      directlyPassedOptions == IF isOptions THEN last.value ELSE OptItem(EmptyOptions)
      popped == IF isOptions THEN Pop(last.rest) ELSE last
      resultFunc == popped.value
      memoizeOptions == IF directlyPassedOptions.opts.memoizeOptions.present
                        THEN directlyPassedOptions.opts.memoizeOptions
                        ELSE MemoizeOptionsArray(memoizeOptionsFromArgs)
      finalMemoizeOptions == IF memoizeOptions.isArray THEN memoizeOptions.list
                             ELSE <<memoizeOptions.list[1]>>
      deps == getDependencies(popped.rest)
  IN  IF TypeOf(resultFunc) # "function"
      THEN [error |-> ExpectsOutputFunction(resultFunc), selector |-> NoSelector]
      ELSE IF directlyPassedOptions.t = "null"
      THEN [error |-> TypeError("Cannot destructure 'directlyPassedOptions' as it is null"),
            selector |-> NoSelector]
      ELSE IF deps.error # NoError
      THEN [error |-> deps.error, selector |-> NoSelector]
      ELSE [error |-> NoError,
            selector |-> [NoSelector EXCEPT
                            !.built = TRUE,
                            !.resultFunc = Fn(resultFunc.v),
                            !.dependencies = deps.dependencies,
                            !.finalMemoizeOptions = finalMemoizeOptions,
                            !.inputStabilityCheck = directlyPassedOptions.opts.inputStabilityCheck]]

\* createStructuredSelector(selectors, selectorCreator = createSelector): [error, selector]
createStructuredSelector(selectors) ==
  IF TypeOf(selectors) # "object"
  THEN [error |-> Error("createStructuredSelector expects first argument to be an object "
                        \o "where each property is a selector, instead received a "
                        \o TypeOf(selectors)),
        selector |-> NoSelector]
  ELSE IF selectors.t = "null"
  THEN [error |-> TypeError("Cannot convert undefined or null to object"),
        selector |-> NoSelector]
  ELSE createSelector(<<>>,
         << ArrItem([k \in 1..Len(SelectorMaps[selectors.v]) |->
                      FnItem(SelectorMaps[selectors.v][k].selector)]),
            FnItem(StructuredResultFunc(selectors.v)) >>)

(***************************************************************************)
(* A call of the output selector.  The steps of a call pass along a record *)
(* m = [st, heap, log, error, value]: the selector, the heap, the user     *)
(* functions invoked and warnings emitted so far in this call, the error   *)
(* raised (if any) and the value produced by the last step.                *)
(***************************************************************************)
\* An entry of the log: dependenciesChecker was entered; input selector idx, or
\* the result function, was applied to args and returned value (error: what it
\* raised); or a warning was logged.
Event(ev, idx, args, value, error) ==
  [ev |-> ev, idx |-> idx, args |-> args, value |-> value, error |-> error]

RECURSIVE RunDependenciesFirstArgument(_, _, _, _)
\* A variant of RunDependencies that passes each input selector the first
\* argument only.
RunDependenciesFirstArgument(m, args, i, params) ==
  LET given == IF args = <<>> THEN <<>> ELSE <<args[1]>>
      pushed(r) ==
        LET logged == [m EXCEPT !.log = Append(m.log, Event("input", i, given, r.value, r.error)),
                                !.heap = r.heap]
        IN  IF r.error # NoError
            THEN [logged EXCEPT !.error = r.error]
            ELSE RunDependenciesFirstArgument(logged, args, i + 1, Append(params, r.value))
  IN  IF i > Len(m.st.dependencies)
      THEN [m EXCEPT !.value = params]
      ELSE pushed(Apply(m.st.dependencies[i], given, m.heap))

RECURSIVE RunDependenciesSwallows(_, _, _, _)
\* A variant of RunDependencies that pushes undefined for an input selector
\* that throws and goes on with the next one.
RunDependenciesSwallows(m, args, i, params) ==
  LET pushed(r) ==
        LET logged == [m EXCEPT !.log = Append(m.log, Event("input", i, args, r.value, r.error)),
                                !.heap = r.heap]
        IN  IF r.error # NoError
            THEN RunDependenciesSwallows(logged, args, i + 1, Append(params, Undefined))
            ELSE RunDependenciesSwallows(logged, args, i + 1, Append(params, r.value))
  IN  IF i > Len(m.st.dependencies)
      THEN [m EXCEPT !.value = params]
      ELSE pushed(Apply(m.st.dependencies[i], args, m.heap))

RECURSIVE selector(_, _, _, _, _)
\* A variant of ApplyDependency that calls selector1 with its caches emptied.
ApplyDependencyUnmemoized(m, i, args) ==
  LET called(r) == [error |-> r.error, value |-> r.value, heap |-> r.heap,
                    selector1 |-> <<r.st>>]
      applied(r) == [error |-> r.error, value |-> r.value, heap |-> r.heap,
                     selector1 |-> m.st.selector1]
  IN  IF m.st.dependencies[i] = selector1
      THEN called(selector([m.st.selector1[1] EXCEPT !.selectorCache = EmptyCache,
                                                     !.resultFuncCache = EmptyCache],
                           m.heap, args, m.global, m.production))
      ELSE applied(Apply(m.st.dependencies[i], args, m.heap))

\* dependencies[i].apply(null, arguments): a plain function is applied; the
\* output selector selector1 is called, and what it closes over changes.
ApplyDependency(m, i, args) ==
  LET called(r) == [error |-> r.error, value |-> r.value, heap |-> r.heap,
                    selector1 |-> <<r.st>>]
      applied(r) == [error |-> r.error, value |-> r.value, heap |-> r.heap,
                     selector1 |-> m.st.selector1]
  IN  IF m.st.dependencies[i] = selector1
      THEN called(selector(m.st.selector1[1], m.heap, args, m.global, m.production))
      ELSE applied(Apply(m.st.dependencies[i], args, m.heap))

RECURSIVE RunDependencies(_, _, _, _)
\* for (let i = 0; i < length; i++) params.push(dependencies[i].apply(null, arguments))
\* m.value is the list pushed so far; an input selector that throws ends the loop.
RunDependencies(m, args, i, params) ==
  LET pushed(r) ==
        LET logged == [m EXCEPT !.log = Append(m.log, Event("input", i, args, r.value, r.error)),
                                !.heap = r.heap, !.st.selector1 = r.selector1]
        IN  IF r.error # NoError
            THEN [logged EXCEPT !.error = r.error]
            ELSE RunDependencies(logged, args, i + 1, Append(params, r.value))
  IN  IF i > Len(m.st.dependencies)
      THEN [m EXCEPT !.value = params]
      ELSE pushed(ApplyDependency(m, i, args))

\* makeAnObject = memoize(() => ({}), ...finalMemoizeOptions), applied to params
makeAnObject(m, params) ==
  LET made == Alloc(m.heap, <<>>, <<>>)
      miss(put) == [m EXCEPT !.st.makeAnObjectCache = put.cache, !.heap = made.heap,
                             !.value = put.value]
      memoized(look) ==
        IF look.hit
        THEN [m EXCEPT !.st.makeAnObjectCache = look.cache, !.value = look.value]
        ELSE miss(MemoStore(m.st.makeAnObjectCache, m.st.finalMemoizeOptions, params, made.value))
  IN  memoized(MemoLookup(m.st.makeAnObjectCache, m.st.finalMemoizeOptions, params))

\* A variant of recomputationWrapper that counts after the result function
\* has returned.
recomputationWrapperCountsReturns(m, params) ==
  LET applied(r) ==
        LET called == [m EXCEPT !.log = Append(@, Event("result", 0, params, r.value, r.error)),
                                !.heap = r.heap, !.error = r.error, !.value = r.value]
        IN  IF r.error # NoError THEN called
            ELSE [called EXCEPT !.st.recomputations = @ + 1]
  IN  applied(Apply(m.st.resultFunc, params, m.heap))

\* A variant of recomputationWrapper whose count is one variable of the module:
\* the count of selector1 grows as well.
recomputationWrapperShared(m, params) ==
  LET counted == IF m.st.selector1 = <<>>
                 THEN [m EXCEPT !.st.recomputations = @ + 1]
                 ELSE [m EXCEPT !.st.recomputations = @ + 1,
                                !.st.selector1[1].recomputations = @ + 1]
      applied(r) ==
        [counted EXCEPT !.log = Append(@, Event("result", 0, params, r.value, r.error)),
                        !.heap = r.heap, !.error = r.error, !.value = r.value]
  IN  applied(Apply(m.st.resultFunc, params, m.heap))

\* function recomputationWrapper() { recomputations++; return resultFunc.apply(null, arguments) }
recomputationWrapper(m, params) ==
  LET counted == [m EXCEPT !.st.recomputations = @ + 1]
      applied(r) ==
        [counted EXCEPT !.log = Append(@, Event("result", 0, params, r.value, r.error)),
                        !.heap = r.heap, !.error = r.error, !.value = r.value]
  IN  applied(Apply(m.st.resultFunc, params, m.heap))

\* A variant of memoizedResultFunc whose cache compares the first argument only.
memoizedResultFuncFirstOnly(m, params) ==
  LET first(s) == IF s = <<>> THEN <<>> ELSE <<s[1]>>
      stored(r, put) == [r EXCEPT !.st.resultFuncCache = put.cache, !.value = put.value]
      miss(r) ==
        IF r.error # NoError THEN r
        ELSE stored(r, MemoStore(m.st.resultFuncCache, m.st.finalMemoizeOptions, params, r.value))
      memoized(look) ==
        IF look.hit
        THEN [m EXCEPT !.value = look.value]
        ELSE miss(recomputationWrapper(m, params))
  IN  memoized(MemoLookup([k \in 1..Len(m.st.resultFuncCache) |->
                             [m.st.resultFuncCache[k] EXCEPT !.key = first(@)]],
                          m.st.finalMemoizeOptions, first(params)))

\* A variant of memoizedResultFunc whose cache keeps two entries at least.
memoizedResultFuncKeepsTwo(m, params) ==
  LET o == ProvidedOptions(m.st.finalMemoizeOptions)
      two == <<ObjOption(o.equalityCheck, IF o.maxSize < 2 THEN 2 ELSE o.maxSize,
                         o.resultEqualityCheck)>>
      stored(r, put) == [r EXCEPT !.st.resultFuncCache = put.cache, !.value = put.value]
      miss(r) ==
        IF r.error # NoError THEN r
        ELSE stored(r, MemoStore(m.st.resultFuncCache, two, params, r.value))
      memoized(look) ==
        IF look.hit
        THEN [m EXCEPT !.st.resultFuncCache = look.cache, !.value = look.value]
        ELSE miss(recomputationWrapper(m, params))
  IN  memoized(MemoLookup(m.st.resultFuncCache, two, params))

\* A variant of memoizedResultFunc that stores an entry, of value undefined,
\* for an invocation that throws.
memoizedResultFuncStoresFailure(m, params) ==
  LET stored(r, put) == [r EXCEPT !.st.resultFuncCache = put.cache]
      miss(r) ==
        IF r.error # NoError
        THEN stored(r, MemoStore(m.st.resultFuncCache, m.st.finalMemoizeOptions, params, Undefined))
        ELSE [stored(r, MemoStore(m.st.resultFuncCache, m.st.finalMemoizeOptions, params, r.value))
                EXCEPT !.value = MemoStore(m.st.resultFuncCache, m.st.finalMemoizeOptions,
                                           params, r.value).value]
      memoized(look) ==
        IF look.hit
        THEN [m EXCEPT !.st.resultFuncCache = look.cache, !.value = look.value]
        ELSE miss(recomputationWrapper(m, params))
  IN  memoized(MemoLookup(m.st.resultFuncCache, m.st.finalMemoizeOptions, params))

\* memoizedResultFunc = memoize(recomputationWrapper, ...finalMemoizeOptions)
memoizedResultFunc(m, params) ==
  LET stored(r, put) == [r EXCEPT !.st.resultFuncCache = put.cache, !.value = put.value]
      miss(r) ==
        IF r.error # NoError THEN r
        ELSE stored(r, MemoStore(m.st.resultFuncCache, m.st.finalMemoizeOptions, params, r.value))
      memoized(look) ==
        IF look.hit
        THEN [m EXCEPT !.st.resultFuncCache = look.cache, !.value = look.value]
        ELSE miss(recomputationWrapper(m, params))
  IN  memoized(MemoLookup(m.st.resultFuncCache, m.st.finalMemoizeOptions, params))

\* A variant of finalStabilityCheck that takes the global setting always.
finalStabilityCheckGlobal(st, global) == global

\* const finalStabilityCheck = inputStabilityCheck ?? globalStabilityCheck
finalStabilityCheck(st, global) ==
  IF st.inputStabilityCheck = "undefined" THEN global ELSE st.inputStabilityCheck

\* A variant of RunsStabilityCheck that does not look at NODE_ENV.
RunsStabilityCheckInProduction(st, global, production) ==
  \/ finalStabilityCheck(st, global) = "always"
  \/ finalStabilityCheck(st, global) = "once" /\ st.firstRun

\* process.env.NODE_ENV !== 'production' &&
\*   (finalStabilityCheck === 'always' || (finalStabilityCheck === 'once' && firstRun))
RunsStabilityCheck(st, global, production) ==
  /\ ~production
  /\ \/ finalStabilityCheck(st, global) = "always"
     \/ finalStabilityCheck(st, global) = "once" /\ st.firstRun

\* A variant of StabilityCheck that throws where it warns.
StabilityCheckThrows(m, args, params) ==
  LET compared(first, second) ==
        LET equal == first.value = second.value
            warned == IF equal THEN second
                      ELSE [second EXCEPT !.log = Append(@, Event("warn", 0, args, Undefined, NoError)),
                                          !.error = Error("An input selector returned a different result")]
        IN  [warned EXCEPT !.st.firstRun = FALSE]
      copied(paramsCopy, first) == compared(first, makeAnObject(first, paramsCopy))
      ranAgain(again) ==
        IF again.error # NoError THEN again
        ELSE copied(again.value, makeAnObject(again, params))
      entered == [m EXCEPT !.log = Append(@, Event("stabilityCheck", 0, args, Undefined, NoError))]
  IN  ranAgain(RunDependencies(entered, args, 1, <<>>))

\* The block guarded by the condition above: run the input selectors again,
\* compare makeAnObject(params) with makeAnObject(paramsCopy), warn, clear firstRun.
StabilityCheck(m, args, params) ==
  LET compared(first, second) ==
        LET equal == first.value = second.value
            warned == IF equal THEN second
                      ELSE [second EXCEPT !.log = Append(@, Event("warn", 0, args, Undefined, NoError))]
        IN  [warned EXCEPT !.st.firstRun = FALSE]
      copied(paramsCopy, first) == compared(first, makeAnObject(first, paramsCopy))
      ranAgain(again) ==
        IF again.error # NoError THEN again
        ELSE copied(again.value, makeAnObject(again, params))
      entered == [m EXCEPT !.log = Append(@, Event("stabilityCheck", 0, args, Undefined, NoError))]
  IN  ranAgain(RunDependencies(entered, args, 1, <<>>))

\* A variant of ApplyResultFunc that applies the wrapper, not its memoized form.
ApplyResultFuncUnmemoized(m, params) ==
  LET assigned(r) == IF r.error # NoError THEN r ELSE [r EXCEPT !.st.lastResult = r.value]
  IN  assigned(recomputationWrapper(m, params))

\* A variant of ApplyResultFunc that sets lastResult only when the result
\* function has run.
ApplyResultFuncKeepsLast(m, params) ==
  LET assigned(r) ==
        IF r.error # NoError \/ r.st.recomputations = m.st.recomputations THEN r
        ELSE [r EXCEPT !.st.lastResult = r.value]
  IN  assigned(memoizedResultFunc(m, params))

\* lastResult = memoizedResultFunc.apply(null, params); return lastResult
ApplyResultFunc(m, params) ==
  LET assigned(r) == IF r.error # NoError THEN r ELSE [r EXCEPT !.st.lastResult = r.value]
  IN  assigned(memoizedResultFunc(m, params))

\* A variant of dependenciesChecker that applies the memoized result function
\* to the arguments of the call.
dependenciesCheckerRawArguments(m, args, global, production) ==
  LET entered == [m EXCEPT !.log = Append(@, Event("dependenciesChecker", 0, args,
                                                    Undefined, NoError))]
      checked(c) == IF c.error # NoError THEN c ELSE ApplyResultFunc(c, args)
      ran(r) ==
        IF r.error # NoError THEN r
        ELSE IF RunsStabilityCheck(r.st, global, production)
        THEN checked(StabilityCheck(r, args, r.value))
        ELSE checked(r)
  IN  ran(RunDependencies(entered, args, 1, <<>>))

\* function dependenciesChecker() { ... }: r.value is params
dependenciesChecker(m, args, global, production) ==
  LET entered == [m EXCEPT !.log = Append(@, Event("dependenciesChecker", 0, args,
                                                    Undefined, NoError))]
      checked(c, params) == IF c.error # NoError THEN c ELSE ApplyResultFunc(c, params)
      ran(r) ==
        IF r.error # NoError THEN r
        ELSE IF RunsStabilityCheck(r.st, global, production)
        THEN checked(StabilityCheck(r, args, r.value), r.value)
        ELSE checked(r, r.value)
  IN  ran(RunDependencies(entered, args, 1, <<>>))

\* A variant of selector without the cache of the arguments.
selectorUnmemoized(st, heap, args, global, production) ==
  LET m == [st |-> st, heap |-> heap, log |-> <<>>, error |-> NoError, value |-> Undefined,
            global |-> global, production |-> production]
      miss(r) == IF r.error # NoError THEN [r EXCEPT !.value = Undefined] ELSE r
  IN  miss(dependenciesChecker(m, args, global, production))

\* A variant of selector whose cache is keyed on the first argument.
selectorKeyedOnFirstArgument(st, heap, args, global, production) ==
  LET m == [st |-> st, heap |-> heap, log |-> <<>>, error |-> NoError, value |-> Undefined,
            global |-> global, production |-> production]
      key == IF args = <<>> THEN <<>> ELSE <<args[1]>>
      stored(r, put) == [r EXCEPT !.st.selectorCache = put.cache, !.value = put.value]
      miss(r) ==
        IF r.error # NoError THEN [r EXCEPT !.value = Undefined]
        ELSE stored(r, MemoStore(st.selectorCache, <<>>, key, r.value))
      memoized(look) ==
        IF look.hit
        THEN [m EXCEPT !.st.selectorCache = look.cache, !.value = look.value]
        ELSE miss(dependenciesChecker(m, args, global, production))
  IN  memoized(MemoLookup(st.selectorCache, <<>>, key))

\* A variant of selector that does not use the cache of the arguments once
\* a field of an object was assigned.
selectorSeesAssignments(st, heap, args, global, production) ==
  LET m == [st |-> st, heap |-> heap, log |-> <<>>, error |-> NoError, value |-> Undefined,
            global |-> global, production |-> production]
      stored(r, put) == [r EXCEPT !.st.selectorCache = put.cache, !.value = put.value]
      miss(r) ==
        IF r.error # NoError THEN [r EXCEPT !.value = Undefined]
        ELSE stored(r, MemoStore(st.selectorCache, <<>>, args, r.value))
      memoized(look) ==
        IF look.hit /\ \A k \in 1..Len(heap) : heap[k].of = 0
        THEN [m EXCEPT !.st.selectorCache = look.cache, !.value = look.value]
        ELSE miss(dependenciesChecker(m, args, global, production))
  IN  memoized(MemoLookup(st.selectorCache, <<>>, args))

\* selector = defaultMemoize(dependenciesChecker), applied to args
selector(st, heap, args, global, production) ==
  LET m == [st |-> st, heap |-> heap, log |-> <<>>, error |-> NoError, value |-> Undefined,
            global |-> global, production |-> production]
      stored(r, put) == [r EXCEPT !.st.selectorCache = put.cache, !.value = put.value]
      miss(r) ==
        IF r.error # NoError THEN [r EXCEPT !.value = Undefined]
        ELSE stored(r, MemoStore(st.selectorCache, <<>>, args, r.value))
      memoized(look) ==
        IF look.hit
        THEN [m EXCEPT !.st.selectorCache = look.cache, !.value = look.value]
        ELSE miss(dependenciesChecker(m, args, global, production))
  IN  memoized(MemoLookup(st.selectorCache, <<>>, args))

(***************************************************************************)
(* The ways createSelector is called: the memoizer options given to        *)
(* createSelectorCreator and the arguments of createSelector.              *)
(***************************************************************************)
Creation(memoizeOptionsFromArgs, funcs) ==
  [memoizeOptionsFromArgs |-> memoizeOptionsFromArgs, funcs |-> funcs]

ValidCreations ==
  { Creation(<<>>, <<FnItem(selectA), FnItem(identity)>>),
    Creation(<<>>, <<ArrItem(<<FnItem(selectA), FnItem(selectB)>>), FnItem(makeObject)>>),
    Creation(<<>>, <<FnItem(selectA), FnItem(selectPropsC), FnItem(makeObject)>>),
    Creation(<<>>, <<FnItem(selectB), FnItem(identity),
                     OptItem(Options(NoMemoizeOptions, "always"))>>),
    Creation(<<>>, <<FnItem(selectA), FnItem(identity),
                     OptItem(Options(NoMemoizeOptions, "never"))>>),
    Creation(<<>>, <<FnItem(selectFresh), FnItem(identity)>>),
    Creation(<<>>, <<FnItem(selectFresh), FnItem(identity),
                     OptItem(Options(OneMemoizeOption(ObjOption("undefined", 0, "typeof")),
                                     "undefined"))>>),
    Creation(<<>>, <<FnItem(selectB), FnItem(readValue)>>),
    Creation(<<>>, <<FnItem(selectB), FnItem(selectA)>>),
    Creation(<<EqOption("typeof")>>, <<FnItem(selectA), FnItem(identity)>>),
    Creation(<<EqOption("typeof")>>,
             <<FnItem(selectA), FnItem(identity),
               OptItem(Options(OneMemoizeOption(ObjOption("undefined", 2, "undefined")),
                               "undefined"))>>),
    Creation(<<>>, <<FnItem(makeObject)>>),
    Creation(<<>>, <<FnItem(selectA), FnItem(identity),
                     OptItem(Options(MemoizeOptionsArray(<<EqOption("typeof")>>), "never"))>>),
    Creation(<<>>, <<ArrItem(<<FnItem(selectA)>>), PrimItem("string"), FnItem(identity)>>) }

InvalidCreations ==
  { Creation(<<>>, <<>>),
    Creation(<<>>, <<FnItem(selectA), PrimItem("string")>>),
    Creation(<<>>, <<FnItem(selectA), PrimItem("undefined")>>),
    Creation(<<>>, <<PrimItem("string"), FnItem(identity)>>),
    Creation(<<>>, <<ArrItem(<<FnItem(selectA), PrimItem("undefined")>>), FnItem(identity)>>),
    Creation(<<>>, <<FnItem(selectB), PrimItem("number"), FnItem(identity)>>),
    Creation(<<>>, <<FnItem(selectB), PrimItem("null"), FnItem(identity),
                     OptItem(EmptyOptions)>>),
    Creation(<<>>, <<PrimItem("string"), PrimItem("number")>>),
    Creation(<<>>, <<ArrItem(<<FnItem(selectA)>>)>>),
    Creation(<<>>, <<FnItem(selectA), FnItem(identity), PrimItem("null")>>),
    Creation(<<>>, <<PrimItem("string"), FnItem(identity), PrimItem("null")>>),
    Creation(<<>>, <<FnItem(selectA), OptItem(EmptyOptions), OptItem(EmptyOptions)>>) }

Creations == ValidCreations \cup InvalidCreations

\* What createStructuredSelector is given: a mapping, or something else.
StructuredArguments ==
  { MapItem(i) : i \in 1..Len(SelectorMaps) }
    \cup { FnItem(selectA), PrimItem("string"), PrimItem("number"), PrimItem("boolean"),
           PrimItem("undefined"), PrimItem("null") }

StabilityChecks == {"always", "once", "never"}

\* The number of operations after createSelector in a behaviour: calls of the
\* output selector, resetRecomputations, clearCache, the global setter.
MaxSteps == 4

(***************************************************************************)
(* The memoizers used on their own.  A memoized function is one record     *)
(* for every strategy: memoize of the first index.js (src/unnamed/         *)
(* part_000) keeps lastArgs and lastResult; defaultMemoize keeps a cache   *)
(* of entries as above; weakMapMemoize and autotrackMemoize are modelled   *)
(* from sections 4.3 and 4.4 of the specification.                         *)
(***************************************************************************)
\* let lastArgs = null
NullArgs == [set |-> FALSE, args |-> <<>>]

NoMemoized ==
  [ made |-> FALSE, strategy |-> "none", func |-> Undefined, valueEquals |-> "undefined",
    options |-> <<>>, lastArgs |-> NullArgs, lastResult |-> Null, cache |-> EmptyCache ]

\* export function defaultValueEquals(a, b) { return a === b }
defaultValueEquals(a, b) == a = b

\* valueEquals(a, b), valueEquals = defaultValueEquals when none is passed
ValueEquals(valueEquals, a, b) ==
  IF valueEquals = "typeof" THEN typeofEquals(a, b) ELSE defaultValueEquals(a, b)

\* A variant of argsEquals that compares by identity whatever valueEquals is.
argsEqualsIdentity(a, b, valueEquals) ==
  \A index \in 1..Len(a) : defaultValueEquals(a[index], Arg(b, index))

\* a.every((value, index) => valueEquals(value, b[index]))
argsEquals(a, b, valueEquals) ==
  \A index \in 1..Len(a) : ValueEquals(valueEquals, a[index], Arg(b, index))

\* internalMemoize(func, valueEquals): the closure with lastArgs = null, lastResult = null
internalMemoize(func, valueEquals) ==
  [ NoMemoized EXCEPT !.made = TRUE, !.strategy = "memoize", !.func = func,
                      !.valueEquals = valueEquals ]

\* memoize(func, valueEquals = defaultValueEquals)
memoize(func, valueEquals) == internalMemoize(func, valueEquals)

\* (...args) => memoizedFunc(args), memoizedFunc the closure internalMemoize returns:
\* lastArgs is assigned before func is applied, lastResult after it returned.
memoizedFunc(m, args) ==
  LET applied(r) ==
        [ st |-> [m EXCEPT !.lastArgs = [set |-> TRUE, args |-> args],
                           !.lastResult = IF r.error = NoError THEN r.value ELSE @],
          invoked |-> 1, error |-> r.error,
          value |-> IF r.error = NoError THEN r.value ELSE Undefined ]
  IN  IF m.lastArgs.set /\ argsEquals(args, m.lastArgs.args, m.valueEquals)
      THEN [st |-> m, invoked |-> 0, error |-> NoError, value |-> m.lastResult]
      ELSE applied(Apply(m.func, args, <<>>))

\* defaultMemoize(func, equalityCheckOrOptions)
defaultMemoize(func, options) ==
  [ NoMemoized EXCEPT !.made = TRUE, !.strategy = "defaultMemoize", !.func = func,
                      !.options = options ]

\* A call of a function memoized by defaultMemoize.
defaultMemoized(m, args) ==
  LET stored(s) ==
        [ st |-> [m EXCEPT !.cache = s.cache], invoked |-> 1, error |-> NoError,
          value |-> s.value ]
      applied(r) ==
        IF r.error # NoError
        THEN [st |-> m, invoked |-> 1, error |-> r.error, value |-> Undefined]
        ELSE stored(MemoStore(m.cache, m.options, args, r.value))
      looked(l) ==
        IF l.hit
        THEN [ st |-> [m EXCEPT !.cache = l.cache], invoked |-> 0, error |-> NoError,
               value |-> l.value ]
        ELSE applied(Apply(m.func, args, <<>>))
  IN  looked(MemoLookup(m.cache, m.options, args))

\* weakMapMemoize(func): no configuration
weakMapMemoize(func) ==
  [ NoMemoized EXCEPT !.made = TRUE, !.strategy = "weakMapMemoize", !.func = func ]

\* A variant of WalkTree that finds the path stored last only.
WalkTreeLastPath(cache, args) ==
  LET at == { k \in 1..Len(cache) : k = Len(cache) /\ cache[k].key = args }
  IN  IF at = {} THEN 0 ELSE CHOOSE k \in at : TRUE

\* The end of the path a1..an in the tree of cache nodes: the position of the
\* entry whose key is the same tuple of identities, or 0.
WalkTree(cache, args) ==
  LET at == { k \in 1..Len(cache) : cache[k].key = args }
  IN  IF at = {} THEN 0 ELSE CHOOSE k \in at : TRUE

\* A call of a function memoized by weakMapMemoize.
weakMapMemoized(m, args) ==
  LET applied(r) ==
        IF r.error # NoError
        THEN [st |-> m, invoked |-> 1, error |-> r.error, value |-> Undefined]
        ELSE [ st |-> [m EXCEPT !.cache = Append(@, [key |-> args, value |-> r.value])],
               invoked |-> 1, error |-> NoError, value |-> r.value ]
      walked(k) ==
        IF k # 0
        THEN [st |-> m, invoked |-> 0, error |-> NoError, value |-> m.cache[k].value]
        ELSE applied(Apply(m.func, args, <<>>))
  IN  walked(WalkTree(m.cache, args))

\* autotrackMemoize(func)
autotrackMemoize(func) ==
  [ NoMemoized EXCEPT !.made = TRUE, !.strategy = "autotrackMemoize", !.func = func ]

\* Reading path p = [arg, name] from args: whether it resolves, and the value read.
ReadPath(args, p) ==
  IF p.arg <= Len(args) /\ args[p.arg].t = "object"
  THEN [resolves |-> TRUE, value |-> GetField(<<>>, args[p.arg], p.name).value]
  ELSE [resolves |-> FALSE, value |-> Undefined]

\* A variant of PathsRead that records nothing.
PathsReadNothing(func, args) == << >>

\* The property paths func reads through the proxies of its object arguments.
PathsRead(func, args) ==
  IF func = selectA /\ ReadPath(args, [arg |-> 1, name |-> "a"]).resolves
  THEN << [arg |-> 1, name |-> "a",
           value |-> ReadPath(args, [arg |-> 1, name |-> "a"]).value] >>
  ELSE << >>

\* A variant of PathsUnchanged that also wants the arguments of the record.
PathsUnchangedSameArguments(record, args) ==
  /\ record.key = args
  /\ \A k \in 1..Len(record.paths) :
       /\ ReadPath(args, record.paths[k]).resolves
       /\ ReadPath(args, record.paths[k]).value = record.paths[k].value

\* Every recorded path, re-read from args, yields the recorded value.
PathsUnchanged(record, args) ==
  \A k \in 1..Len(record.paths) :
    /\ ReadPath(args, record.paths[k]).resolves
    /\ ReadPath(args, record.paths[k]).value = record.paths[k].value

\* A call of a function memoized by autotrackMemoize.
autotrackMemoized(m, args) ==
  LET applied(r) ==
        IF r.error # NoError
        THEN [st |-> m, invoked |-> 1, error |-> r.error, value |-> Undefined]
        ELSE [ st |-> [m EXCEPT !.cache = << [key |-> args, value |-> r.value,
                                               paths |-> PathsRead(m.func, args)] >>],
               invoked |-> 1, error |-> NoError, value |-> r.value ]
  IN  IF m.cache # <<>> /\ PathsUnchanged(m.cache[1], args)
      THEN [st |-> m, invoked |-> 0, error |-> NoError, value |-> m.cache[1].value]
      ELSE applied(Apply(m.func, args, <<>>))

\* memoized(...args)
memoized(m, args) ==
  CASE m.strategy = "memoize" -> memoizedFunc(m, args)
    [] m.strategy = "defaultMemoize" -> defaultMemoized(m, args)
    [] m.strategy = "weakMapMemoize" -> weakMapMemoized(m, args)
    [] m.strategy = "autotrackMemoize" -> autotrackMemoized(m, args)

\* memoized.clearCache(): every entry, the root of the tree, the stored record.
clearCache(m) == [m EXCEPT !.cache = MemoClear(@)]

\* The ways a memoized function is made: [strategy, func, valueEquals, options].
Memoization(strategy, func, valueEquals, options) ==
  [strategy |-> strategy, func |-> func, valueEquals |-> valueEquals, options |-> options]

Memoizations ==
  { Memoization("memoize", f, e, <<>>) : f \in {identity, selectA}, e \in {"undefined", "typeof"} }
    \cup { Memoization("defaultMemoize", f, "undefined", <<>>) : f \in {identity, selectA} }
    \cup { Memoization("defaultMemoize", identity, "undefined", <<o>>) :
             o \in { EqOption("typeof"), ObjOption("undefined", 2, "undefined"),
                     ObjOption("undefined", 2, "typeof") } }
    \cup { Memoization("defaultMemoize", selectA, "undefined", <<ObjOption("undefined", 2, "undefined")>>) }
    \cup { Memoization(s, f, "undefined", <<>>) :
             s \in {"weakMapMemoize", "autotrackMemoize"}, f \in {identity, selectA} }

\* The argument tuples a caller passes to a memoized function.
MemoArgLists ==
  { <<>>, <<Num(1)>>, <<Num(2)>>, <<Str(1)>>, <<Num(1), Undefined>>,
    <<Obj(1)>>, <<Obj(2)>>, <<Obj(3)>>, <<Obj(5)>>, <<Obj(6)>> }

\* The number of operations on a memoized function in a behaviour.
MaxMemoSteps == 4

(***************************************************************************)
(* State.  sel is the output selector (not built before createSelector     *)
(* returns one); heap the objects made by the calls; globalStabilityCheck  *)
(* the module variable of that name; production whether NODE_ENV is        *)
(* 'production'.                                                           *)
(* The other variables record what happened.  last is the last operation:  *)
(* what was passed, the selector, heap and history before it, the user     *)
(* functions it invoked, what it returned or raised.  hist keeps the last  *)
(* call of the output selector (cleared: clearCache() was called since;    *)
(* global: the global setting during it)                                   *)
(* and the last invocation of the result function that returned.  invoked *)
(* counts the invocations of the result function since the selector was    *)
(* made or resetRecomputations() was last called; steps counts the         *)
(* operations.                                                             *)
(***************************************************************************)
VARIABLES sel, heap, globalStabilityCheck, production, last, hist, invoked, steps

(***************************************************************************)
(* memo is a function memoized on its own (not made before one of the      *)
(* memoizers is called).  mlast records the last operation on it: the      *)
(* arguments, how often the wrapped function was invoked, what the call    *)
(* returned or raised, memo before the operation, and the operation        *)
(* before this one.  mhist keeps the argument tuples of the calls that     *)
(* returned: uses since clearCache() was last called, most recent first,   *)
(* seen since the function was memoized, first the first of them since     *)
(* clearCache() was last called.  msteps counts the operations.            *)
(***************************************************************************)
VARIABLES memo, mlast, mhist, msteps

selectorVars == <<sel, heap, globalStabilityCheck, production, last, hist, invoked, steps>>
memoVars == <<memo, mlast, mhist, msteps>>
vars == <<sel, heap, globalStabilityCheck, production, last, hist, invoked, steps,
          memo, mlast, mhist, msteps>>

NoFirst == [done |-> FALSE, args |-> <<>>, value |-> Undefined]

NoMemoHistory == [uses |-> <<>>, seen |-> {}, cleared |-> FALSE, first |-> NoFirst]

NoMemoPrev ==
  [ op |-> "none", args |-> <<>>, invoked |-> 0, error |-> NoError, value |-> Undefined,
    pre |-> NoMemoized ]

NoMemoLast ==
  [ op |-> "none", args |-> <<>>, invoked |-> 0, error |-> NoError, value |-> Undefined,
    pre |-> NoMemoized, hist |-> NoMemoHistory, prev |-> NoMemoPrev ]

\* What is kept of an operation when the next one is recorded.
MemoPrev(l) ==
  [ op |-> l.op, args |-> l.args, invoked |-> l.invoked, error |-> l.error,
    value |-> l.value, pre |-> l.pre ]

\* The uses after a call with args: args first, once.
Used(uses, args) == <<args>> \o SelectSeq(uses, LAMBDA u : u # args)

NoCreation == Creation(<<>>, <<>>)

NoHistory ==
  [ call |-> [done |-> FALSE, args |-> <<>>, error |-> NoError, value |-> Undefined,
              cleared |-> FALSE, global |-> "once"],
    ret |-> [done |-> FALSE, args |-> <<>>, value |-> Undefined] ]

\* What a call of the output selector or of createSelector leaves in last.
Last(op, args, creation, log, error, value) ==
  [ op |-> op, args |-> args, creation |-> creation, pre |-> sel, prev |-> hist,
    heap |-> heap, log |-> log, error |-> error, value |-> value ]

\* What any other operation leaves in last: its name and what it returned.
Did(op, value) ==
  [ op |-> op, args |-> <<>>, creation |-> NoCreation, pre |-> NoSelector,
    prev |-> NoHistory, heap |-> <<>>, log |-> <<>>, error |-> NoError, value |-> value ]

ResultEvents(log) == { k \in 1..Len(log) : log[k].ev = "result" }

\* The history after a call that was passed args and ended as r.
Remember(h, args, r) ==
  LET returned == { k \in ResultEvents(r.log) : r.log[k].error = NoError }
      k == CHOOSE n \in returned : \A j \in returned : j <= n
  IN  [ call |-> [done |-> TRUE, args |-> args, error |-> r.error, value |-> r.value,
                  cleared |-> FALSE, global |-> globalStabilityCheck],
        ret |-> IF returned = {} THEN h.ret
                ELSE [done |-> TRUE, args |-> r.log[k].args, value |-> r.log[k].value] ]

Init ==
  /\ sel = NoSelector
  /\ heap = <<>>
  /\ globalStabilityCheck = "once"
  /\ production \in BOOLEAN
  /\ last = Did("none", Undefined)
  /\ hist = NoHistory
  /\ invoked = 0
  /\ steps = 0
  /\ memo = NoMemoized
  /\ mlast = NoMemoLast
  /\ mhist = NoMemoHistory
  /\ msteps = 0

\* createSelectorCreator(defaultMemoize, ...memoizeOptionsFromArgs)(...funcs)
Create(c) ==
  /\ ~sel.built
  /\ LET made(r) == /\ sel' = r.selector
                     /\ last' = Last("create", <<>>, c, <<>>, r.error, Undefined)
     IN  made(createSelector(c.memoizeOptionsFromArgs, c.funcs))
  /\ UNCHANGED <<heap, globalStabilityCheck, production, hist, invoked, steps, memoVars>>

\* createStructuredSelector(selectors)
CreateStructured(selectors) ==
  /\ ~sel.built
  /\ LET made(r) == /\ sel' = r.selector
                     /\ last' = Last("createStructured", <<>>, Creation(<<>>, <<selectors>>),
                                      <<>>, r.error, Undefined)
     IN  made(createStructuredSelector(selectors))
  /\ UNCHANGED <<heap, globalStabilityCheck, production, hist, invoked, steps, memoVars>>

\* selector(...args)
Call(args) ==
  /\ sel.built
  /\ steps < MaxSteps
  /\ LET ended(r) == /\ sel' = r.st
                      /\ heap' = r.heap
                      /\ last' = Last("call", args, NoCreation, r.log, r.error, r.value)
                      /\ hist' = Remember(hist, args, r)
                      /\ invoked' = invoked + Cardinality(ResultEvents(r.log))
     IN  ended(selector(sel, heap, args, globalStabilityCheck, production))
  /\ steps' = steps + 1
  /\ UNCHANGED <<globalStabilityCheck, production, memoVars>>

\* The properties of an output selector: those Object.assign(selector, {...}) gives
\* it, and clearCache, which defaultMemoize attaches.
OutputSelectorFields ==
  { "resultFunc", "memoizedResultFunc", "dependencies", "lastResult", "recomputations",
    "resetRecomputations", "clearCache" }

\* selector[name](): calling a property the selector does not have raises a TypeError.
CallField(st, name) ==
  IF name \notin OutputSelectorFields
  THEN [error |-> TypeError("selector." \o name \o " is not a function"), value |-> Undefined]
  ELSE [error |-> NoError,
        value |-> CASE name = "recomputations" -> Num(st.recomputations)
                    [] name = "lastResult" -> st.lastResult
                    [] name = "resetRecomputations" -> Num(0)
                    [] OTHER -> Undefined]

\* resetRecomputations: () => (recomputations = 0)
resetRecomputations(st) ==
  [st |-> [st EXCEPT !.recomputations = 0], value |-> Num(0)]

\* selector.resetRecomputations()
ResetRecomputations ==
  /\ sel.built
  /\ steps < MaxSteps
  /\ steps' = steps + 1
  /\ sel' = resetRecomputations(sel).st
  /\ invoked' = 0
  /\ last' = [Did("resetRecomputations", resetRecomputations(sel).value) EXCEPT !.pre = sel]
  /\ UNCHANGED <<heap, globalStabilityCheck, production, hist, memoVars>>

\* A variant of clearSelectorCache that empties the cache of the result
\* function as well.
clearSelectorCacheAll(st) ==
  [st EXCEPT !.selectorCache = MemoClear(@), !.resultFuncCache = MemoClear(@)]

\* clearCache of selector = defaultMemoize(dependenciesChecker): the cache that
\* this memoized function holds, the one of the arguments, is emptied.
clearSelectorCache(st) == [st EXCEPT !.selectorCache = MemoClear(@)]

\* selector.clearCache(), which defaultMemoize attaches to selector
ClearCache ==
  /\ sel.built
  /\ steps < MaxSteps
  /\ steps' = steps + 1
  /\ sel' = clearSelectorCache(sel)
  /\ last' = [Did("clearCache", Undefined) EXCEPT !.pre = sel]
  /\ hist' = [hist EXCEPT !.call.cleared = TRUE]
  /\ UNCHANGED <<heap, globalStabilityCheck, production, invoked, memoVars>>

\* setInputStabilityCheckEnabled(enabled)
SetInputStabilityCheckEnabled(enabled) ==
  /\ steps < MaxSteps
  /\ steps' = steps + 1
  /\ globalStabilityCheck' = enabled
  /\ last' = [Did("setInputStabilityCheckEnabled", Undefined) EXCEPT !.pre = sel]
  /\ UNCHANGED <<sel, heap, production, hist, invoked, memoVars>>

Next ==
  \/ \E c \in Creations : Create(c)
  \/ \E selectors \in StructuredArguments : CreateStructured(selectors)
  \/ \E args \in ArgLists : Call(args)
  \/ ResetRecomputations
  \/ ClearCache
  \/ \E enabled \in StabilityChecks : SetInputStabilityCheckEnabled(enabled)

Spec == Init /\ [][Next]_vars

(***************************************************************************)
(* The memoizers on their own: one of them is called on a function, the    *)
(* memoized function is called, its cache is cleared.                      *)
(***************************************************************************)
InitMemo ==
  /\ sel = NoSelector
  /\ heap = <<>>
  /\ globalStabilityCheck = "once"
  /\ production = FALSE
  /\ last = Did("none", Undefined)
  /\ hist = NoHistory
  /\ invoked = 0
  /\ steps = 0
  /\ memo = NoMemoized
  /\ mlast = NoMemoLast
  /\ mhist = NoMemoHistory
  /\ msteps = 0

\* const memoized = memoize(func, valueEquals), defaultMemoize(func, options),
\* weakMapMemoize(func) or autotrackMemoize(func)
Memoize(c) ==
  /\ ~memo.made
  /\ memo' = CASE c.strategy = "memoize" -> memoize(c.func, c.valueEquals)
                [] c.strategy = "defaultMemoize" -> defaultMemoize(c.func, c.options)
                [] c.strategy = "weakMapMemoize" -> weakMapMemoize(c.func)
                [] c.strategy = "autotrackMemoize" -> autotrackMemoize(c.func)
  /\ mlast' = [NoMemoLast EXCEPT !.op = "memoize"]
  /\ UNCHANGED <<mhist, msteps, selectorVars>>

\* memoized(...args)
CallMemoized(args) ==
  /\ memo.made
  /\ msteps < MaxMemoSteps
  /\ LET ended(r) ==
           /\ memo' = r.st
           /\ mlast' = [ op |-> "call", args |-> args, invoked |-> r.invoked,
                         error |-> r.error, value |-> r.value, pre |-> memo,
                         hist |-> mhist, prev |-> MemoPrev(mlast) ]
           /\ mhist' = IF r.error = NoError
                       THEN [mhist EXCEPT !.uses = Used(@, args), !.seen = @ \cup {args},
                                         !.first = IF @.done THEN @ ELSE
                                           [done |-> TRUE, args |-> args, value |-> r.value]]
                       ELSE mhist
     IN  ended(memoized(memo, args))
  /\ msteps' = msteps + 1
  /\ UNCHANGED selectorVars

\* memoized.clearCache(); the function memoize of the first index.js returns has none
ClearMemoized ==
  /\ memo.made
  /\ memo.strategy # "memoize"
  /\ msteps < MaxMemoSteps
  /\ memo' = clearCache(memo)
  /\ mlast' = [ op |-> "clearCache", args |-> <<>>, invoked |-> 0, error |-> NoError,
                value |-> Undefined, pre |-> memo, hist |-> mhist,
                prev |-> MemoPrev(mlast) ]
  /\ mhist' = [mhist EXCEPT !.uses = <<>>, !.cleared = TRUE, !.first = NoFirst]
  /\ msteps' = msteps + 1
  /\ UNCHANGED selectorVars

\* x[name] = v between two calls of the output selector
Mutate(x, name, v) ==
  /\ sel.built
  /\ steps < MaxSteps
  /\ steps' = steps + 1
  /\ heap' = Assign(heap, x, name, v)
  /\ last' = Did("mutate", Undefined)
  /\ UNCHANGED <<sel, globalStabilityCheck, production, hist, invoked, memoVars>>

\* The selectors, arguments and assignments of the behaviours with mutation:
\* createSelector(state => state.a, a => a.a) and createSelector(state => state.a, a => a),
\* called with a state that holds a nested object.
MutationCreations ==
  { Creation(<<>>, <<FnItem(selectA), FnItem(selectA)>>),
    Creation(<<>>, <<FnItem(selectA), FnItem(identity)>>) }

MutationArgLists == { <<Obj(1)>>, <<Obj(7)>>, <<Obj(8)>> }

MutatedObjects == { Obj(1), Obj(7) }

AssignedValues == { Num(2), Obj(3) }

NextMutation ==
  \/ \E c \in MutationCreations : Create(c)
  \/ \E args \in MutationArgLists : Call(args)
  \/ \E x \in MutatedObjects, v \in AssignedValues : Mutate(x, "a", v)

SpecMutation == Init /\ [][NextMutation]_vars

NextMemo ==
  \/ \E c \in Memoizations : Memoize(c)
  \/ \E args \in MemoArgLists : CallMemoized(args)
  \/ ClearMemoized

SpecMemo == InitMemo /\ [][NextMemo]_vars

(***************************************************************************)
(* Two output selectors of one selector creator: selector1 is made first,  *)
(* then the selector sel, whose dependencies hold selector1 (a chained     *)
(* selector) or do not (two selectors side by side).  Each is called, has  *)
(* its cache cleared and its count reset.                                  *)
(***************************************************************************)
MaxChainSteps == 4

\* const selector1 = createSelector(state => state.a, state => state.b, (sub, x) => ({ sub, x }))
Selector1Creations ==
  { Creation(<<>>, <<FnItem(selectA), FnItem(selectB), FnItem(makeObject)>>) }

\* createSelector(selector1, sub => sub), and a second selector made of what
\* selector1 is made of.
Selector2Creations ==
  { Creation(<<>>, <<FnItem(selector1), FnItem(identity)>>),
    Creation(<<>>, <<FnItem(selectA), FnItem(selectB), FnItem(makeObject)>>) }

ChainArgLists == { <<Obj(1)>>, <<Obj(2)>>, <<Obj(3)>> }

\* const selector1 = createSelector(...)
CreateSelector1(c) ==
  /\ ~sel.built
  /\ sel.selector1 = <<>>
  /\ LET made(r) == /\ r.error = NoError
                     /\ sel' = [sel EXCEPT !.selector1 = <<r.selector>>]
                     /\ last' = Last("create1", <<>>, c, <<>>, r.error, Undefined)
     IN  made(createSelector(c.memoizeOptionsFromArgs, c.funcs))
  /\ UNCHANGED <<heap, globalStabilityCheck, production, hist, invoked, steps, memoVars>>

\* const selector2 = createSelector(...), after selector1 was made
CreateSelector2(c) ==
  /\ ~sel.built
  /\ sel.selector1 # <<>>
  /\ LET made(r) == /\ sel' = [r.selector EXCEPT !.selector1 = sel.selector1]
                     /\ last' = Last("create", <<>>, c, <<>>, r.error, Undefined)
     IN  made(createSelector(c.memoizeOptionsFromArgs, c.funcs))
  /\ UNCHANGED <<heap, globalStabilityCheck, production, hist, invoked, steps, memoVars>>

\* selector2(...args)
CallSelector2(args) == steps < MaxChainSteps /\ Call(args)

\* selector1(...args)
CallSelector1(args) ==
  /\ sel.built
  /\ steps < MaxChainSteps
  /\ LET ended(r) == /\ sel' = [sel EXCEPT !.selector1 = <<r.st>>]
                      /\ heap' = r.heap
                      /\ last' = Last("call1", args, NoCreation, r.log, r.error, r.value)
     IN  ended(selector(sel.selector1[1], heap, args, globalStabilityCheck, production))
  /\ steps' = steps + 1
  /\ UNCHANGED <<globalStabilityCheck, production, hist, invoked, memoVars>>

\* selector2.clearCache()
ClearCacheSelector2 == steps < MaxChainSteps /\ ClearCache

\* selector1.clearCache()
ClearCacheSelector1 ==
  /\ sel.built
  /\ steps < MaxChainSteps
  /\ steps' = steps + 1
  /\ sel' = [sel EXCEPT !.selector1 = <<clearSelectorCache(sel.selector1[1])>>]
  /\ last' = [Did("clearCache1", Undefined) EXCEPT !.pre = sel]
  /\ UNCHANGED <<heap, globalStabilityCheck, production, hist, invoked, memoVars>>

\* selector2.resetRecomputations()
ResetRecomputationsSelector2 == steps < MaxChainSteps /\ ResetRecomputations

\* selector1.resetRecomputations()
ResetRecomputationsSelector1 ==
  /\ sel.built
  /\ steps < MaxChainSteps
  /\ steps' = steps + 1
  /\ sel' = [sel EXCEPT !.selector1 = <<resetRecomputations(sel.selector1[1]).st>>]
  /\ last' = [Did("resetRecomputations1", resetRecomputations(sel.selector1[1]).value)
                EXCEPT !.pre = sel]
  /\ UNCHANGED <<heap, globalStabilityCheck, production, hist, invoked, memoVars>>

\* setInputStabilityCheckEnabled(enabled), with both selectors made
SetGlobalStabilityCheck(enabled) ==
  /\ sel.built
  /\ steps < MaxChainSteps
  /\ SetInputStabilityCheckEnabled(enabled)

NextChain ==
  \/ \E c \in Selector1Creations : CreateSelector1(c)
  \/ \E c \in Selector2Creations : CreateSelector2(c)
  \/ \E args \in ChainArgLists : CallSelector2(args)
  \/ \E args \in ChainArgLists : CallSelector1(args)
  \/ ClearCacheSelector2
  \/ ClearCacheSelector1
  \/ ResetRecomputationsSelector2
  \/ ResetRecomputationsSelector1
  \/ \E enabled \in StabilityChecks : SetGlobalStabilityCheck(enabled)

SpecChain == Init /\ [][NextChain]_vars

(***************************************************************************)
(* What the last call did, read off its log.                               *)
(***************************************************************************)
Called == last.op = "call"
Returned == Called /\ last.error = NoError

InputLog == SelectSeq(last.log, LAMBDA e : e.ev = "input")
ResultLog == SelectSeq(last.log, LAMBDA e : e.ev = "result")
Warnings == SelectSeq(last.log, LAMBDA e : e.ev = "warn")

\* dependenciesChecker ran: the call was not served by the cache of the arguments.
RanDependencies == Called /\ last.log # <<>>

NumDependencies == Len(last.pre.dependencies)

\* The first run of the input selectors returned a result for each of them.
InputsReturned ==
  /\ RanDependencies
  /\ Len(InputLog) >= NumDependencies
  /\ \A k \in 1..NumDependencies : InputLog[k].error = NoError

\* The results of that run, in declared order.
InputResults == [k \in 1..NumDependencies |-> InputLog[k].value]

\* The memoizer options of the selector that was called.
OptionsInForce == ProvidedOptions(last.pre.finalMemoizeOptions)

IdentityEquality ==
  /\ OptionsInForce.equalityCheck = "identity"
  /\ OptionsInForce.resultEqualityCheck = "undefined"

(***************************************************************************)
(* C1.  Cascading skip.  With the default memoizer and identity equality,  *)
(* a call that runs the input selectors (its arguments are not served by   *)
(* the cache of the arguments) and gets results pairwise identical to      *)
(* those of the last invocation of the result function that returned, does *)
(* not invoke the result function, leaves recomputations() as it was, and  *)
(* returns the very result that invocation returned.                       *)
(***************************************************************************)
C1_CascadingSkip ==
  ( /\ InputsReturned
    /\ IdentityEquality
    /\ last.prev.ret.done
    /\ InputResults = last.prev.ret.args )
  => /\ ResultLog = <<>>
     /\ sel.recomputations = last.pre.recomputations
     /\ last.error = NoError
     /\ last.value = last.prev.ret.value

\* A call with other arguments than the call before it, the same input
\* results, and an object as the result that is returned again.
C1_Witness ==
  /\ InputsReturned
  /\ IdentityEquality
  /\ last.prev.call.done
  /\ last.prev.call.args # last.args
  /\ last.prev.ret.done
  /\ InputResults = last.prev.ret.args
  /\ NumDependencies = 2
  /\ last.value.t = "object"
  /\ last.pre.recomputations = 1

(***************************************************************************)
(* C2.  Args-level hit.  A call whose arguments are pairwise identical     *)
(* (same count) to those of the immediately preceding call of the          *)
(* selector, when that call returned normally and clearCache() has not     *)
(* been called since, invokes no input selector and no result function     *)
(* and returns the result of the preceding call.                           *)
(***************************************************************************)
C2_ArgsLevelHit ==
  ( /\ Called
    /\ last.prev.call.done
    /\ last.prev.call.error = NoError
    /\ ~last.prev.call.cleared
    /\ last.args = last.prev.call.args )
  => /\ last.log = <<>>
     /\ last.error = NoError
     /\ last.value = last.prev.call.value

\* C2 as the claim states it: whatever happened between the two calls.
C2_AsStated ==
  ( /\ Called
    /\ last.prev.call.done
    /\ last.prev.call.error = NoError
    /\ last.args = last.prev.call.args )
  => /\ last.log = <<>>
     /\ last.error = NoError
     /\ last.value = last.prev.call.value

\* The same two arguments twice in a row, an object returned twice.
C2_Witness ==
  /\ Called
  /\ last.prev.call.done
  /\ last.prev.call.error = NoError
  /\ ~last.prev.call.cleared
  /\ last.args = last.prev.call.args
  /\ Len(last.args) = 2
  /\ last.value.t = "object"
  /\ last.value = last.prev.call.value
  /\ sel.recomputations = 1

(***************************************************************************)
(* The unmemoized composition of the README, and equality of values by     *)
(* content.                                                                *)
(***************************************************************************)
RECURSIVE ExtractValues(_, _, _, _)
\* inputSelectors.map(inputSelector => inputSelector(...args)), from position i on
ExtractValues(inputSelectors, args, h, i) ==
  IF i > Len(inputSelectors)
  THEN [error |-> NoError, values |-> <<>>, heap |-> h]
  ELSE LET r == Apply(inputSelectors[i], args, h)
           rest == ExtractValues(inputSelectors, args, r.heap, i + 1)
       IN  IF r.error # NoError
           THEN [error |-> r.error, values |-> <<>>, heap |-> r.heap]
           ELSE [rest EXCEPT !.values = <<r.value>> \o @]

\* const finalSelector = (...args) => resultFunc(...inputSelectors.map(s => s(...args)))
finalSelector(st, h, args) ==
  LET extractedValues == ExtractValues(st.dependencies, args, h, 1)
  IN  IF extractedValues.error # NoError
      THEN [error |-> extractedValues.error, value |-> Undefined, heap |-> extractedValues.heap]
      ELSE Apply(st.resultFunc, extractedValues.values, extractedValues.heap)

\* The fields of an object: their names and values.
Fields(h, x) ==
  LET names == IF x.v <= NumStatic THEN <<"a", "b", "c">> ELSE h[x.v - NumStatic].names
  IN  [names |-> names, vals |-> [k \in 1..Len(names) |-> GetField(h, x, names[k]).value]]

RECURSIVE DeepEqual(_, _, _, _)
\* x in heap h1 and y in heap h2 are equal: identical primitives or functions,
\* or objects with the same fields holding equal values.
DeepEqual(h1, x, h2, y) ==
  IF x.t = "object" /\ y.t = "object"
  THEN LET f == Fields(h1, x)
           g == Fields(h2, y)
       IN  /\ f.names = g.names
           /\ \A k \in 1..Len(f.names) : DeepEqual(h1, f.vals[k], h2, g.vals[k])
  ELSE x = y

(***************************************************************************)
(* C3.  Equivalence with the unmemoized composition.  With identity        *)
(* equality, every call selector(A) ends as resultFunc(s1(A), ..., sn(A))  *)
(* ends: it returns a value equal to what the composition returns, or      *)
(* raises what the composition raises.                                     *)
(***************************************************************************)
C3_EquivalentToComposition ==
  (Called /\ IdentityEquality)
  => LET ref == finalSelector(last.pre, heap, last.args)
     IN  IF ref.error = NoError
         THEN /\ last.error = NoError
              /\ DeepEqual(heap, last.value, ref.heap, ref.value)
         ELSE last.error = ref.error

\* A call that differs from the call before it in its second argument only,
\* and returns another object with other content.
C3_Witness ==
  /\ Returned
  /\ IdentityEquality
  /\ last.prev.call.done
  /\ Len(last.args) = 2
  /\ Len(last.prev.call.args) = 2
  /\ last.args[1] = last.prev.call.args[1]
  /\ last.args[2] # last.prev.call.args[2]
  /\ last.value.t = "object"
  /\ last.prev.call.value.t = "object"
  /\ ~DeepEqual(heap, last.value, heap, last.prev.call.value)

(***************************************************************************)
(* C4.  Recompute on change.  With a cache of one entry for the result     *)
(* function, a call in which some input result is unequal, under the       *)
(* equality check of that cache, to the corresponding result of the last   *)
(* invocation of the result function that returned, invokes the result     *)
(* function exactly once, with the new results, and recomputations()       *)
(* increases by exactly 1.                                                 *)
(***************************************************************************)
C4_RecomputeOnChange ==
  ( /\ InputsReturned
    /\ last.prev.ret.done
    /\ OptionsInForce.maxSize = 1
    /\ ~ArgsEqual(OptionsInForce.equalityCheck, last.prev.ret.args, InputResults) )
  => /\ Len(ResultLog) = 1
     /\ ResultLog[1].args = InputResults
     /\ sel.recomputations = last.pre.recomputations + 1

\* C4 as the claim states it: whatever the size of the cache.
C4_AsStated ==
  ( /\ InputsReturned
    /\ last.prev.ret.done
    /\ ~ArgsEqual(OptionsInForce.equalityCheck, last.prev.ret.args, InputResults) )
  => /\ Len(ResultLog) = 1
     /\ ResultLog[1].args = InputResults
     /\ sel.recomputations = last.pre.recomputations + 1

\* Under the typeof equality check: a string after a number.
C4_Witness ==
  /\ InputsReturned
  /\ last.prev.ret.done
  /\ OptionsInForce.maxSize = 1
  /\ OptionsInForce.equalityCheck = "typeof"
  /\ ~ArgsEqual(OptionsInForce.equalityCheck, last.prev.ret.args, InputResults)
  /\ Len(ResultLog) = 1
  /\ sel.recomputations = 2

(***************************************************************************)
(* C5.  recomputations() is the number of invocations of the result        *)
(* function through the selector since the selector was made or            *)
(* resetRecomputations() was last called; resetRecomputations() sets the   *)
(* counter to 0 and returns 0.                                             *)
(***************************************************************************)
C5_RecomputationsCount ==
  /\ sel.built => sel.recomputations = invoked
  /\ last.op = "resetRecomputations" => (sel.recomputations = 0 /\ last.value = Num(0))

\* The first recomputation after the counter was reset.
C5_Witness ==
  /\ Called
  /\ last.prev.ret.done
  /\ last.pre.recomputations = 0
  /\ ResultLog # <<>>
  /\ sel.recomputations = 1
  /\ invoked = 1

(***************************************************************************)
(* C6.  lastResult() is undefined before the first call, and right after a *)
(* call of the output selector that returns normally it is identical to    *)
(* the value the call returned, whichever cache served it.                 *)
(***************************************************************************)
C6_LastResult ==
  /\ (sel.built /\ ~hist.call.done) => sel.lastResult = Undefined
  /\ Returned => sel.lastResult = last.value

\* A call served by the cache of the result function with a value that was
\* not the last result before it.
C6_Witness ==
  /\ Returned
  /\ RanDependencies
  /\ ResultLog = <<>>
  /\ last.value # last.pre.lastResult
  /\ sel.lastResult = last.value

(***************************************************************************)
(* C7.  Whenever the input selectors run for a call selector(a1, ..., ak), *)
(* each is invoked with exactly (a1, ..., ak), in declared order; unless   *)
(* one of them raises, every one of them is invoked (once, or twice when   *)
(* the input stability check runs them again).                             *)
(***************************************************************************)
C7_InputSelectorArguments ==
  RanDependencies
  => /\ \A k \in 1..Len(InputLog) :
          /\ InputLog[k].args = last.args
          /\ InputLog[k].idx = ((k - 1) % NumDependencies) + 1
     /\ (\A k \in 1..Len(InputLog) : InputLog[k].error = NoError)
          => Len(InputLog) \in {NumDependencies, 2 * NumDependencies}

\* Two input selectors, two arguments, both runs.
C7_Witness ==
  /\ RanDependencies
  /\ NumDependencies = 2
  /\ Len(last.args) = 2
  /\ Len(InputLog) = 4
  /\ InputLog[2].value = Num(100)

(***************************************************************************)
(* C8.  Whenever the result function is invoked by an output selector with *)
(* n input selectors, it receives exactly n arguments: the results of      *)
(* input selectors 1..n in this call, in declared order, never the         *)
(* arguments of the call.                                                  *)
(***************************************************************************)
C8_ResultFuncArguments ==
  Called
  => /\ Len(ResultLog) <= 1
     /\ \A k \in 1..Len(ResultLog) :
          /\ InputsReturned
          /\ Len(ResultLog[k].args) = NumDependencies
          /\ ResultLog[k].args = InputResults

\* Two input selectors whose results are not the two arguments.
C8_Witness ==
  /\ Called
  /\ NumDependencies = 2
  /\ Len(last.args) = 2
  /\ Len(ResultLog) = 1
  /\ ResultLog[1].args = InputResults
  /\ InputResults # last.args

(***************************************************************************)
(* What createSelector was given, and what an error message lists.         *)
(***************************************************************************)
Created == last.op = "create"
Given == last.creation.funcs

\* A trailing argument whose typeof is 'object' is taken as the options.
HasOptions == Given # <<>> /\ TypeOf(Given[Len(Given)]) = "object"
BeforeOptions == IF HasOptions THEN SubSeq(Given, 1, Len(Given) - 1) ELSE Given

\* What stands where the result function is expected: undefined when nothing does.
ResultFuncMissing == BeforeOptions = <<>> \/ BeforeOptions[Len(BeforeOptions)].t = "undefined"
GivenResultFunc ==
  IF BeforeOptions = <<>> THEN PrimItem("undefined") ELSE BeforeOptions[Len(BeforeOptions)]
BeforeResultFunc ==
  IF BeforeOptions = <<>> THEN <<>> ELSE SubSeq(BeforeOptions, 1, Len(BeforeOptions) - 1)

LeadingArray == BeforeResultFunc # <<>> /\ BeforeResultFunc[1].t = "array"

\* Every input selector that was supplied, in an array or inline.
SuppliedInputSelectors ==
  IF LeadingArray THEN BeforeResultFunc[1].items \o Tail(BeforeResultFunc)
  ELSE BeforeResultFunc

\* The dependency list: the items of a leading array, else the inline arguments.
DependencyList ==
  IF LeadingArray THEN BeforeResultFunc[1].items ELSE BeforeResultFunc

NotAllFunctions(entries) == \E k \in 1..Len(entries) : TypeOf(entries[k]) # "function"

\* The first position of sub in s, or 0.
IndexOf(s, sub) ==
  LET at == { i \in 1..(Len(s) - Len(sub) + 1) : SubSeq(s, i, i + Len(sub) - 1) = sub }
  IN  IF at = {} THEN 0 ELSE CHOOSE i \in at : \A j \in at : i <= j

StartsWith(s, prefix) == Len(s) >= Len(prefix) /\ SubSeq(s, 1, Len(prefix)) = prefix

RECURSIVE Split(_, _)
Split(s, sep) ==
  LET i == IndexOf(s, sep)
  IN  IF i = 0 THEN <<s>>
      ELSE <<SubSeq(s, 1, i - 1)>> \o Split(SubSeq(s, i + Len(sep), Len(s)), sep)

\* What a message holds between its square brackets ("" without brackets).
Bracketed(message) ==
  LET i == IndexOf(message, "[")
      j == IndexOf(message, "]")
  IN  IF i = 0 \/ j = 0 THEN "" ELSE SubSeq(message, i + 1, j - 1)

\* The message lists one type per entry, in order: the typeof of the entry.
ListsTypeOfEvery(message, entries) ==
  LET listed == Split(Bracketed(message), ", ")
  IN  /\ Len(listed) = Len(entries)
      /\ \A k \in 1..Len(entries) : StartsWith(listed[k], TypeOf(entries[k]))

CreatedStructured == last.op = "createStructured"
GivenSelectors == last.creation.funcs[1]

Structured == Called /\ IsStructuredResultFunc(last.pre.resultFunc)
StructuredMap == SelectorMaps[last.pre.resultFunc.v - 10]

EndsWith(s, suffix) ==
  Len(s) >= Len(suffix) /\ SubSeq(s, Len(s) - Len(suffix) + 1, Len(s)) = suffix

(***************************************************************************)
(* C11.  A selector made by createStructuredSelector(m) returns, for       *)
(* arguments A, an object with exactly the keys of m, each key k bound to  *)
(* m[k](A).  A call whose extracted values are identical to those of the   *)
(* last recomputation returns the very object that recomputation returned, *)
(* and every recomputation returns an object that did not exist before.    *)
(***************************************************************************)
C11_StructuredSelector ==
  /\ (Structured /\ Returned)
       => LET f == Fields(heap, last.value)
          IN  /\ last.value.t = "object"
              /\ f.names = [k \in 1..Len(StructuredMap) |-> StructuredMap[k].key]
              /\ \A k \in 1..Len(StructuredMap) :
                    f.vals[k] = Apply(StructuredMap[k].selector, last.args, heap).value
  /\ (Structured /\ InputsReturned /\ last.prev.ret.done
        /\ InputResults = last.prev.ret.args)
       => (ResultLog = <<>> /\ last.value = last.prev.ret.value)
  /\ (Structured /\ ResultLog # <<>>)
       => /\ last.value = Obj(NumStatic + Len(heap))
          /\ last.value # last.pre.lastResult
          /\ last.prev.ret.done => last.value # last.prev.ret.value

\* {x: 1, y: 2} returned again for another state object with the same a and b.
C11_Witness ==
  /\ Structured
  /\ Returned
  /\ RanDependencies
  /\ last.prev.call.done
  /\ last.prev.call.args # last.args
  /\ ResultLog = <<>>
  /\ last.value = last.prev.ret.value
  /\ Fields(heap, last.value) = [names |-> <<"x", "y">>, vals |-> <<Num(1), Num(2)>>]

(***************************************************************************)
(* C12.  As the claim states it: for a first argument that is a function,  *)
(* a string, a number, a boolean, undefined or null,                       *)
(* createStructuredSelector raises the Error whose message names the type  *)
(* received, and builds no selector.                                       *)
(***************************************************************************)
C12_AsStated ==
  (CreatedStructured
     /\ GivenSelectors.t \in {"function", "string", "number", "boolean", "undefined", "null"})
  => /\ ~sel.built
     /\ last.error.kind = "Error"
     /\ \/ EndsWith(last.error.message, "instead received a " \o TypeOf(GivenSelectors))
        \/ EndsWith(last.error.message, "instead received a " \o GivenSelectors.t)

(***************************************************************************)
(* C13.  The two call forms are equivalent: createSelector(s1, ..., sn, c) *)
(* and createSelector([s1, ..., sn], c), with the same options, make the   *)
(* same output selector: the same dependencies s1..sn in order, the same   *)
(* result function, memoizer options and (empty) caches and counters, so   *)
(* that every sequence of calls gives the same values and recomputations.  *)
(***************************************************************************)
AfterResultFunc == SubSeq(Given, Len(BeforeResultFunc) + 1, Len(Given))

\* The same creation in the other call form.
OtherForm ==
  IF LeadingArray THEN BeforeResultFunc[1].items \o AfterResultFunc
  ELSE <<ArrItem(BeforeResultFunc)>> \o AfterResultFunc

C13_CallFormsEquivalent ==
  (Created /\ sel.built /\ (LeadingArray => Len(BeforeResultFunc) = 1))
  => LET other == createSelector(last.creation.memoizeOptionsFromArgs, OtherForm)
     IN  /\ other.error = NoError
         /\ other.selector = sel
         /\ sel.dependencies = [k \in 1..Len(DependencyList) |-> Fn(DependencyList[k].v)]

\* Two input selectors given inline.
C13_Witness ==
  /\ Created
  /\ sel.built
  /\ ~LeadingArray
  /\ Len(BeforeResultFunc) = 2
  /\ sel.dependencies = <<selectA, selectPropsC>>

(***************************************************************************)
(* C14.  The options the memoizer of the result function is built with    *)
(* are the memoizeOptions of createSelector's trailing options object when *)
(* it has any, otherwise the options given to createSelectorCreator; a     *)
(* memoizeOptions that is not an array is the single option, an array is   *)
(* the list of options.  Those options decide the hits of that memoizer.   *)
(***************************************************************************)
DirectMemoizeOptions ==
  IF HasOptions THEN Given[Len(Given)].opts.memoizeOptions ELSE NoMemoizeOptions

C14_MemoizeOptions ==
  /\ (Created /\ sel.built)
       => sel.finalMemoizeOptions =
            IF ~DirectMemoizeOptions.present THEN last.creation.memoizeOptionsFromArgs
            ELSE IF DirectMemoizeOptions.isArray THEN DirectMemoizeOptions.list
            ELSE <<DirectMemoizeOptions.list[1]>>
  /\ InputsReturned
       => (ResultLog = <<>>
             <=> \E k \in 1..Len(last.pre.resultFuncCache) :
                    ArgsEqual(OptionsInForce.equalityCheck,
                              last.pre.resultFuncCache[k].key, InputResults))

\* Options given to createSelectorCreator and other memoizeOptions given directly.
C14_Witness ==
  /\ Created
  /\ sel.built
  /\ DirectMemoizeOptions.present
  /\ last.creation.memoizeOptionsFromArgs # <<>>
  /\ sel.finalMemoizeOptions # last.creation.memoizeOptionsFromArgs
  /\ ProvidedOptions(sel.finalMemoizeOptions).maxSize = 2

(***************************************************************************)
(* C16.  With the default createSelector both caches hold one entry: a     *)
(* call whose input results differ from those of the last invocation of    *)
(* the result function invokes it again, also when the same results were   *)
(* used by an earlier invocation (calls A, B, A invoke it three times).    *)
(***************************************************************************)
C16_SingleEntry ==
  /\ (sel.built /\ sel.finalMemoizeOptions = <<>>)
       => (Len(sel.selectorCache) <= 1 /\ Len(sel.resultFuncCache) <= 1)
  /\ ( /\ InputsReturned
       /\ last.pre.finalMemoizeOptions = <<>>
       /\ last.prev.ret.done
       /\ InputResults # last.prev.ret.args )
     => /\ Len(ResultLog) = 1
        /\ sel.recomputations = last.pre.recomputations + 1

\* Calls A, B, A in production: the three objects made by (sub, x) => ({sub, x}),
\* the first and the third with the same content.
C16_Witness ==
  /\ Called
  /\ production
  /\ last.pre.finalMemoizeOptions = <<>>
  /\ last.pre.resultFunc = makeObject
  /\ sel.recomputations = 3
  /\ Len(heap) = 3
  /\ heap[1] = heap[3]
  /\ heap[1] # heap[2]
  /\ last.value = Obj(NumStatic + 3)

(***************************************************************************)
(* What the last operation on the memoized function did.                   *)
(***************************************************************************)
MemoCalled == mlast.op = "call"
BoundedHistory(m) == m.strategy \in {"memoize", "defaultMemoize"}
MaxSizeOf(m) == IF m.strategy = "memoize" THEN 1 ELSE ProvidedOptions(m.options).maxSize
EqualityOf(m) ==
  IF m.strategy = "memoize"
  THEN (IF m.valueEquals = "typeof" THEN "typeof" ELSE "identity")
  ELSE ProvidedOptions(m.options).equalityCheck

\* The tuple and the result a memoized function of cache size 1 holds.
Stored(m) ==
  IF m.strategy = "memoize"
  THEN [has |-> m.lastArgs.set, args |-> m.lastArgs.args, result |-> m.lastResult]
  ELSE IF m.cache = <<>>
  THEN [has |-> FALSE, args |-> <<>>, result |-> Null]
  ELSE [has |-> TRUE, args |-> m.cache[1].key, result |-> m.cache[1].value]

\* The tuples a bounded-history memoized function holds.
StoredTuples(m) ==
  IF m.strategy = "memoize"
  THEN (IF m.lastArgs.set THEN {m.lastArgs.args} ELSE {})
  ELSE { m.cache[k].key : k \in 1..Len(m.cache) }

\* Two tuples of the same count, equal under eq at every position.
PairwiseEqual(eq, x, y) ==
  /\ Len(x) = Len(y)
  /\ \A k \in 1..Len(x) : EqualityCheck(eq, x[k], y[k])

Keys(cache) == [k \in 1..Len(cache) |-> cache[k].key]
MostRecent(uses, n) == SubSeq(uses, 1, IF Len(uses) < n THEN Len(uses) ELSE n)

C17_LeastRecentlyUsed ==
  (/\ memo.made
   /\ memo.strategy = "defaultMemoize"
   /\ MaxSizeOf(memo) > 1
   /\ EqualityOf(memo) = "identity") =>
    /\ Len(memo.cache) <= MaxSizeOf(memo)
    /\ Keys(memo.cache) = MostRecent(mhist.uses, MaxSizeOf(memo))
    /\ MemoCalled =>
         LET before == MostRecent(mlast.hist.uses, MaxSizeOf(memo))
             at == { k \in 1..Len(before) : before[k] = mlast.args }
         IN  IF at # {}
             THEN /\ mlast.invoked = 0
                  /\ \A k \in at : mlast.value = mlast.pre.cache[k].value
             ELSE mlast.invoked = 1

\* With maxSize 2: a hit on the older of two entries, then a call with a third
\* tuple, which evicted the entry that was the more recent one before the hit.
C17_Witness ==
  /\ MemoCalled
  /\ mlast.pre.strategy = "defaultMemoize"
  /\ MaxSizeOf(mlast.pre) = 2
  /\ mlast.invoked = 1
  /\ mlast.error = NoError
  /\ mlast.prev.op = "call"
  /\ mlast.prev.invoked = 0
  /\ Len(mlast.prev.pre.cache) = 2
  /\ mlast.prev.args = mlast.prev.pre.cache[2].key
  /\ Keys(memo.cache) = <<mlast.args, mlast.prev.args>>
  /\ mlast.prev.pre.cache[1].key \notin {mlast.args, mlast.prev.args}

\* C18. defaultMemoize with a resultEqualityCheck R: a call that misses invokes the
\* wrapped function once; when the result of some entry of the cache, the
\* most recent or not, satisfies R against the new result, the result of
\* such an entry is the one returned and stored for the new arguments;
\* otherwise the new result is.
C18_ResultEqualityCheck ==
  (/\ MemoCalled
   /\ mlast.pre.strategy = "defaultMemoize"
   /\ ProvidedOptions(mlast.pre.options).resultEqualityCheck # "undefined") =>
    LET R == ProvidedOptions(mlast.pre.options).resultEqualityCheck
        cache == mlast.pre.cache
        miss == \A k \in 1..Len(cache) :
                  ~PairwiseEqual(EqualityOf(mlast.pre), cache[k].key, mlast.args)
        judged(fresh) ==
          LET old == { cache[k].value : k \in { j \in 1..Len(cache) :
                                                  EqualityCheck(R, cache[j].value, fresh.value) } }
          IN  /\ mlast.invoked = 1
              /\ mlast.error = fresh.error
              /\ fresh.error = NoError =>
                   /\ IF old # {} THEN mlast.value \in old ELSE mlast.value = fresh.value
                   /\ memo.cache # <<>>
                   /\ memo.cache[1] = [key |-> mlast.args, value |-> mlast.value]
    IN  miss => judged(Apply(mlast.pre.func, mlast.args, <<>>))

\* Only the older of two entries holds a result that R accepts: that result
\* is returned in place of the new one.
C18_Witness ==
  /\ MemoCalled
  /\ mlast.pre.strategy = "defaultMemoize"
  /\ ProvidedOptions(mlast.pre.options).resultEqualityCheck = "typeof"
  /\ mlast.invoked = 1
  /\ Len(mlast.pre.cache) = 2
  /\ ~typeofEquals(mlast.pre.cache[1].value, mlast.args[1])
  /\ typeofEquals(mlast.pre.cache[2].value, mlast.args[1])
  /\ mlast.value = mlast.pre.cache[2].value
  /\ mlast.value # mlast.args[1]

\* C19. As the claim states it: a call of a bounded-history memoized function
\* that does not invoke the wrapped function has as many arguments as a
\* stored tuple, so a call with a different count of arguments is never a hit.
C19_AsStated ==
  (MemoCalled /\ BoundedHistory(mlast.pre) /\ mlast.invoked = 0) =>
    \E t \in StoredTuples(mlast.pre) : Len(t) = Len(mlast.args)

\* C20. defaultMemoize, weakMapMemoize, autotrackMemoize: the call after
\* clearCache() invokes the wrapped function, whatever its arguments; a call
\* after a call that returned, with the same arguments, does not invoke it
\* and returns the same value, after clearCache() as before it.
C20_ClearCache ==
  (MemoCalled /\ mlast.pre.strategy \in {"defaultMemoize", "weakMapMemoize", "autotrackMemoize"}) =>
    /\ mlast.prev.op = "clearCache" => mlast.invoked = 1
    /\ (mlast.prev.op = "call" /\ mlast.prev.error = NoError /\ mlast.prev.args = mlast.args) =>
         /\ mlast.invoked = 0
         /\ mlast.value = mlast.prev.value

\* clearCache() and then a call with arguments used before it, on a => a
\* memoized by autotrackMemoize, which no arguments invalidate.
C20_Witness ==
  /\ MemoCalled
  /\ mlast.pre.strategy = "autotrackMemoize"
  /\ mlast.pre.func = identity
  /\ mlast.prev.op = "clearCache"
  /\ mlast.prev.pre.cache # <<>>
  /\ mlast.args \in mlast.hist.seen
  /\ mlast.invoked = 1

Range(q) == { q[k] : k \in 1..Len(q) }

\* C21. weakMapMemoize: a call does not invoke the wrapped function exactly
\* when a call with the same count of arguments and the identical argument at
\* every position returned since the function was memoized or clearCache() was
\* last called, whatever other tuples were used in between, and it returns
\* what the function returns for them; any other call invokes it once, also
\* one whose argument is a distinct object of the same content.
C21_IdentityPath ==
  (MemoCalled /\ mlast.pre.strategy = "weakMapMemoize") =>
    /\ mlast.invoked \in {0, 1}
    /\ mlast.invoked = 0 <=> mlast.args \in Range(mlast.hist.uses)
    /\ mlast.error = NoError =>
         mlast.value = Apply(mlast.pre.func, mlast.args, <<>>).value

\* A, B, A where A and B are distinct objects of the same content: B invoked
\* the function, the second A did not.
C21_Witness ==
  /\ MemoCalled
  /\ mlast.pre.strategy = "weakMapMemoize"
  /\ mlast.args = <<Obj(1)>>
  /\ mlast.invoked = 0
  /\ mlast.prev.op = "call"
  /\ mlast.prev.args = <<Obj(2)>>
  /\ mlast.prev.invoked = 1
  /\ StaticObjects[1] = StaticObjects[2]
  /\ mlast.hist.uses = << <<Obj(2)>>, <<Obj(1)>> >>

\* The fields the wrapped function reads of its object arguments: state => state.a
\* reads a of the first, a => a reads none.
FieldsRead(func) == IF func = selectA THEN { [arg |-> 1, name |-> "a"] } ELSE {}

\* Every field the function read in the call with args stored is, read again
\* from args next, there and identical.
ReadsUnchanged(func, stored, next) ==
  \A p \in FieldsRead(func) :
    ReadPath(stored, p).resolves =>
      /\ ReadPath(next, p).resolves
      /\ ReadPath(next, p).value = ReadPath(stored, p).value

\* C22. autotrackMemoize: after a call that returned, with arguments X, a call
\* returns the stored result without invoking the wrapped function exactly
\* when every field the function read of X is still there in the new
\* arguments with the identical value (so a change of fields never read does
\* not recompute); otherwise the function is invoked once and, when it returns,
\* the record is replaced by that of the new call.
C22_RecordedPaths ==
  (MemoCalled /\ mlast.pre.strategy = "autotrackMemoize" /\ mlast.pre.cache # <<>>) =>
    LET X == mlast.pre.cache[1].key
    IN  IF ReadsUnchanged(mlast.pre.func, X, mlast.args)
        THEN /\ mlast.invoked = 0
             /\ mlast.value = mlast.pre.cache[1].value
             /\ memo.cache = mlast.pre.cache
        ELSE /\ mlast.invoked = 1
             /\ mlast.error = NoError =>
                  /\ memo.cache[1].key = mlast.args
                  /\ memo.cache[1].value = mlast.value
                  /\ mlast.value = Apply(mlast.pre.func, mlast.args, <<>>).value

\* state => state.a: an object that differs in c only was served by the
\* record, then an object with another a invoked the function.
C22_Witness ==
  /\ MemoCalled
  /\ mlast.pre.strategy = "autotrackMemoize"
  /\ mlast.pre.func = selectA
  /\ mlast.prev.op = "call"
  /\ mlast.prev.pre.cache # <<>>
  /\ mlast.prev.pre.cache[1].key = <<Obj(5)>>
  /\ mlast.prev.args = <<Obj(6)>>
  /\ StaticObjects[5].c # StaticObjects[6].c
  /\ mlast.prev.invoked = 0
  /\ mlast.args = <<Obj(1)>>
  /\ mlast.invoked = 1
  /\ memo.cache[1].key = <<Obj(1)>>

\* C23. autotrackMemoize of a function that reads no field of its arguments
\* (a => a): once a call returned, every call, whatever its arguments, invokes
\* nothing and returns the value of that first call, until clearCache() is
\* called; the call after clearCache() invokes the function again.
C23_NeverInvalidates ==
  (/\ MemoCalled
   /\ mlast.pre.strategy = "autotrackMemoize"
   /\ FieldsRead(mlast.pre.func) = {}) =>
    IF mlast.hist.first.done
    THEN /\ mlast.invoked = 0
         /\ mlast.error = NoError
         /\ mlast.value = mlast.hist.first.value
    ELSE /\ mlast.invoked = 1
         /\ mlast.value = Arg(mlast.args, 1)

\* The first call was given an object; a later call given a number returned
\* that object.
C23_Witness ==
  /\ MemoCalled
  /\ mlast.pre.strategy = "autotrackMemoize"
  /\ mlast.pre.func = identity
  /\ mlast.hist.first.done
  /\ mlast.hist.first.args = <<Obj(1)>>
  /\ Len(mlast.hist.uses) >= 2
  /\ mlast.args = <<Num(2)>>
  /\ mlast.invoked = 0
  /\ mlast.value = Obj(1)

(***************************************************************************)
(* The input stability check, read off the log of the last call.           *)
(***************************************************************************)
CheckRan == Called /\ \E k \in 1..Len(last.log) : last.log[k].ev = "stabilityCheck"
Override == last.pre.inputStabilityCheck
Effective == IF Override # "undefined" THEN Override ELSE globalStabilityCheck
FirstCall == Called /\ ~last.prev.call.done
TimesInvoked(idx) == Cardinality({ k \in 1..Len(InputLog) : InputLog[k].idx = idx })

\* C24. As the claim states it: outside production, a call whose effective
\* frequency is once runs the check only if it is the first call of the output
\* selector, and the first call runs it (when its input selectors returned).
C24_AsStated ==
  (Called /\ ~production /\ Effective = "once") =>
    /\ CheckRan => FirstCall
    /\ (FirstCall /\ InputsReturned) => CheckRan

\* C25. As the claim states it: outside production, with the effective frequency
\* always, every call runs the check (unless an input selector threw first),
\* also a call with the arguments of the call before it.
C25_AsStated ==
  (Called /\ ~production /\ Effective = "always" /\ (RanDependencies => InputsReturned)) =>
    CheckRan

\* C26. With the effective frequency never, or in production whatever the
\* frequency, a call does not run the check: no input selector is applied
\* more than once in the call and nothing is warned.
C26_NeverOrProduction ==
  (Called /\ (production \/ Effective = "never")) =>
    /\ ~CheckRan
    /\ Warnings = <<>>
    /\ Len(InputLog) <= NumDependencies
    /\ \A idx \in 1..NumDependencies : TimesInvoked(idx) <= 1

\* In production, a selector made with inputStabilityCheck 'always' ran its
\* input selector once.
C26_Witness ==
  /\ Called
  /\ production
  /\ Override = "always"
  /\ InputsReturned
  /\ NumDependencies = 1
  /\ TimesInvoked(1) = 1

\* C27. The frequency in force in a call is the inputStabilityCheck option of
\* the selector when it was given one, else the global setting at that call,
\* which is once until the setter is called: outside production a call whose
\* input selectors returned runs the check exactly when that frequency is
\* always, or is once and firstRun is still set.
C27_EffectiveFrequency ==
  /\ last.op = "none" => globalStabilityCheck = "once"
  /\ (Called /\ ~production /\ InputsReturned) =>
       (CheckRan <=> \/ Effective = "always"
                     \/ Effective = "once" /\ last.pre.firstRun)

\* A selector without the option was called under never, the global setting
\* was changed to always, and its next call ran the check.
C27_Witness ==
  /\ Called
  /\ Override = "undefined"
  /\ last.prev.call.done
  /\ last.prev.call.global = "never"
  /\ globalStabilityCheck = "always"
  /\ CheckRan

\* C28. A call that ran the check ends as the same call without the check
\* ends: the same error or an equal value, the same recomputations(), an equal
\* lastResult(), an equal cache of the result function; the result function,
\* when invoked, was given the results of the first run of the input selectors.
C28_Advisory ==
  (Called /\ CheckRan) =>
    LET same(u) ==
          /\ last.error = u.error
          /\ DeepEqual(heap, last.value, u.heap, u.value)
          /\ sel.recomputations = u.st.recomputations
          /\ DeepEqual(heap, sel.lastResult, u.heap, u.st.lastResult)
          /\ Len(sel.resultFuncCache) = Len(u.st.resultFuncCache)
          /\ \A k \in 1..Len(sel.resultFuncCache) :
               /\ Len(sel.resultFuncCache[k].key) = Len(u.st.resultFuncCache[k].key)
               /\ \A j \in 1..Len(sel.resultFuncCache[k].key) :
                    DeepEqual(heap, sel.resultFuncCache[k].key[j],
                              u.heap, u.st.resultFuncCache[k].key[j])
               /\ DeepEqual(heap, sel.resultFuncCache[k].value,
                            u.heap, u.st.resultFuncCache[k].value)
          /\ ResultLog # <<>> => ResultLog[1].args = InputResults
    IN  same(selector([last.pre EXCEPT !.inputStabilityCheck = "never"], last.heap,
                      last.args, globalStabilityCheck, production))

\* The check warned and the call returned after one invocation of the result
\* function.
C28_Witness ==
  /\ Called
  /\ CheckRan
  /\ Warnings # <<>>
  /\ last.error = NoError
  /\ Len(ResultLog) = 1
  /\ sel.recomputations = last.pre.recomputations + 1

\* C29. Whatever was assigned to fields of objects between the calls: a call
\* with the arguments of the call before it (the same references) applies
\* neither the input selectors nor the result function and returns what that
\* call returned; a call that runs the input selectors and gets the results
\* (the same references) the result function was last given does not invoke
\* the result function and returns what it returned then.
C29_MutationInvisible ==
  /\ (/\ Called
      /\ last.prev.call.done
      /\ ~last.prev.call.cleared
      /\ last.prev.call.error = NoError
      /\ last.args = last.prev.call.args) =>
       /\ last.log = <<>>
       /\ last.error = NoError
       /\ last.value = last.prev.call.value
  /\ (/\ Called
      /\ InputsReturned
      /\ last.prev.ret.done
      /\ InputResults = last.prev.ret.args) =>
       /\ ResultLog = <<>>
       /\ last.error = NoError
       /\ last.value = last.prev.ret.value

\* selector(state7) returned 1 = state7.a.a; 2 was assigned to the field a of
\* the nested object; selector(state8), another state holding that object,
\* ran the input selector, did not invoke the result function and returned 1,
\* where state8.a.a is 2.
C29_Witness ==
  /\ Called
  /\ last.pre.resultFunc = selectA
  /\ last.prev.call.done
  /\ last.prev.call.args = <<Obj(7)>>
  /\ last.args = <<Obj(8)>>
  /\ InputsReturned
  /\ InputResults = <<Obj(1)>>
  /\ ResultLog = <<>>
  /\ last.value = Num(1)
  /\ finalSelector(last.pre, heap, last.args).value = Num(2)

\* C30. As the claim states it: an output selector has dependencyRecomputations()
\* and resetDependencyRecomputations(); calling them raises nothing.
C30_AsStated ==
  sel.built =>
    /\ CallField(sel, "dependencyRecomputations").error = NoError
    /\ CallField(sel, "resetDependencyRecomputations").error = NoError

\* createSelector was given input selectors and nothing else: one array of
\* functions, with no result function after it.
OnlyInputSelectors ==
  /\ Len(Given) = 1
  /\ Given[1].t = "array"
  /\ Given[1].items # <<>>
  /\ ~NotAllFunctions(Given[1].items)

\* C31. As the claim states it: createSelector([s]), given input selectors and
\* no result function, is valid and returns an output selector whose result
\* function is the identity, so that a call of it returns what s returns.
C31_AsStated ==
  (Created /\ OnlyInputSelectors) =>
    /\ last.error = NoError
    /\ sel.built
    /\ sel.dependencies = [k \in 1..Len(Given[1].items) |-> Fn(Given[1].items[k].v)]
    /\ sel.resultFunc = identity

\* An input selector threw in the call: the last input selector that was
\* applied raised an error.
InputThrew ==
  /\ RanDependencies
  /\ InputLog # <<>>
  /\ InputLog[Len(InputLog)].error # NoError

\* The input selectors are applied in the call r.
RunsInputSelectors(r) == \E k \in 1..Len(r.log) : r.log[k].ev = "input"

\* C32. A call in which an input selector throws ends with the error that input
\* selector raised; the result function is not invoked in it; recomputations(),
\* lastResult() and both caches are what they were before the call; and the
\* failed call is not cached: a call with the same arguments that follows it
\* applies the input selectors again.
C32_InputSelectorThrows ==
  (Called /\ InputThrew) =>
    /\ last.error = InputLog[Len(InputLog)].error
    /\ last.error = Apply(last.pre.dependencies[InputLog[Len(InputLog)].idx],
                          last.args, last.heap).error
    /\ ResultLog = <<>>
    /\ sel.recomputations = last.pre.recomputations
    /\ sel.lastResult = last.pre.lastResult
    /\ sel.selectorCache = last.pre.selectorCache
    /\ sel.resultFuncCache = last.pre.resultFuncCache
    /\ RunsInputSelectors(selector(sel, heap, last.args, globalStabilityCheck, production))

\* After a call that returned, a call with one argument less made an input
\* selector throw, and the same call made again ran the input selectors and
\* threw again; recomputations() and lastResult() are those of the first call.
C32_Witness ==
  /\ Called
  /\ InputThrew
  /\ last.prev.call.done
  /\ last.prev.call.error # NoError
  /\ last.prev.call.args = last.args
  /\ sel.recomputations = 1
  /\ sel.lastResult # Undefined

\* The check ran the input selectors a second time and each returned.
SecondRunReturned ==
  /\ CheckRan
  /\ Len(InputLog) = 2 * NumDependencies
  /\ \A k \in 1..Len(InputLog) : InputLog[k].error = NoError

\* paramsCopy: the results of the second run, in declared order.
SecondResults == [k \in 1..NumDependencies |-> InputLog[NumDependencies + k].value]

\* C33. As the claim states it: whenever the check runs, with first results P
\* and second results P', a warning is emitted if and only if P and P' are
\* unequal at some position under the equality check of the memoizer options
\* in force, whatever those options are (resultEqualityCheck and maxSize
\* included).
C33_AsStated ==
  (Called /\ SecondRunReturned) =>
    (Warnings # <<>> <=>
       ~PairwiseEqual(OptionsInForce.equalityCheck, InputResults, SecondResults))

\* No invocation of the result function has returned before the call.
NeverCalled == ~last.prev.ret.done

\* C34. As the claim states it: the output selector stays never-called until an
\* invocation of the result function has returned, so outside production a
\* call whose effective frequency is once runs the check as long as none has;
\* after a first call in which the result function threw, the next call runs
\* the check again.
C34_AsStated ==
  (Called /\ ~production /\ Effective = "once" /\ InputsReturned /\ NeverCalled) =>
    CheckRan

\* The result function was invoked in the call and threw.
ResultFuncThrew ==
  /\ Called
  /\ ResultLog # <<>>
  /\ ResultLog[Len(ResultLog)].error # NoError

\* C38. A call in which the result function throws ends with the error the
\* result function raised; lastResult() is what it was before the call;
\* recomputations() is greater by 1; and the input results of the failed
\* invocation are not stored: the cache of the result function is what it was
\* before the call, and the same results given again invoke it again.
C38_ResultFuncThrows ==
  ResultFuncThrew =>
    /\ Len(ResultLog) = 1
    /\ last.error = ResultLog[1].error
    /\ last.error = Apply(last.pre.resultFunc, ResultLog[1].args, last.heap).error
    /\ sel.lastResult = last.pre.lastResult
    /\ sel.recomputations = last.pre.recomputations + 1
    /\ sel.resultFuncCache = last.pre.resultFuncCache
    /\ ~MemoLookup(sel.resultFuncCache, sel.finalMemoizeOptions, ResultLog[1].args).hit
    /\ sel.selectorCache = last.pre.selectorCache

\* After a call that returned 1, the result function threw in a second call;
\* lastResult() is still 1 and recomputations() is 2.
C38_Witness ==
  /\ ResultFuncThrew
  /\ last.prev.call.done
  /\ last.prev.call.error = NoError
  /\ last.pre.lastResult = Num(1)
  /\ sel.lastResult = Num(1)
  /\ last.pre.recomputations = 1
  /\ sel.recomputations = 2

\* clearCache() was called since the call before this one.
AfterClearCache == Called /\ last.prev.call.done /\ last.prev.call.cleared

\* C37. clearCache() of an output selector empties the cache of the arguments
\* and nothing else: the cache of the result function, recomputations(),
\* lastResult() and the first-run flag are what they were.  The call that
\* follows it, whatever its arguments, applies the input selectors again; it
\* invokes the result function, and recomputations() grows by 1, exactly when
\* the cache of the result function holds no entry for the input results.
C37_ClearCache ==
  /\ last.op = "clearCache" =>
       /\ sel.selectorCache = EmptyCache
       /\ sel.resultFuncCache = last.pre.resultFuncCache
       /\ sel.makeAnObjectCache = last.pre.makeAnObjectCache
       /\ sel.recomputations = last.pre.recomputations
       /\ sel.lastResult = last.pre.lastResult
       /\ sel.firstRun = last.pre.firstRun
  /\ AfterClearCache =>
       /\ RanDependencies
       /\ TimesInvoked(1) >= (IF NumDependencies = 0 THEN 0 ELSE 1)
       /\ InputsReturned =>
            LET hit == MemoLookup(last.pre.resultFuncCache, last.pre.finalMemoizeOptions,
                                  InputResults).hit
            IN  /\ ResultLog = <<>> <=> hit
                /\ sel.recomputations = last.pre.recomputations + (IF hit THEN 0 ELSE 1)

\* selector(args) returned, clearCache() was called, and selector(args) again
\* applied the input selectors, did not invoke the result function and
\* returned the same result; recomputations() is still 1.
C37_Witness ==
  /\ AfterClearCache
  /\ last.prev.call.error = NoError
  /\ last.prev.call.args = last.args
  /\ last.pre.selectorCache = EmptyCache
  /\ last.pre.resultFuncCache # EmptyCache
  /\ InputsReturned
  /\ ResultLog = <<>>
  /\ last.value = last.prev.call.value
  /\ sel.recomputations = 1

Chained ==
  /\ Called
  /\ last.pre.dependencies # <<>>
  /\ last.pre.dependencies[1] = selector1

\* selector1 before and after the operation.
Selector1Before == last.pre.selector1[1]
Selector1After == sel.selector1[1]

\* What the input selectors of selector1 return for the arguments of the call.
Selector1Inputs == ExtractValues(Selector1Before.dependencies, last.args, last.heap, 1)

\* The cache of the result function of selector1 holds an entry for them.
Selector1Cached ==
  /\ Selector1Inputs.error = NoError
  /\ MemoLookup(Selector1Before.resultFuncCache, Selector1Before.finalMemoizeOptions,
                Selector1Inputs.values).hit

\* C35. selector1 is the first input selector of selector2 (both with the
\* default memoizer options).  A call selector2(A) that runs its input
\* selectors calls selector1 with the arguments A.  A call selector2(A) that
\* follows a call of selector2 with the same A that returned (no clearCache()
\* between them) invokes neither result function and returns the same result.
\* In a call with other arguments for which the input selectors of selector1
\* return results its cache holds, selector1 does not invoke its result
\* function and returns the cached result; and when the input results of
\* selector2 are then identical to those of the last invocation of its result
\* function, selector2 does not invoke its result function and
\* selector2.recomputations() is unchanged.
C35_Composition ==
  /\ (Chained /\ RanDependencies) =>
       /\ InputLog[1].args = last.args
       /\ InputLog[1].error = NoError =>
            /\ Selector1After.selectorCache # EmptyCache
            /\ Selector1After.selectorCache[1].key = last.args
            /\ Selector1After.selectorCache[1].value = InputLog[1].value
  /\ (/\ Chained
      /\ last.prev.call.done
      /\ last.prev.call.error = NoError
      /\ ~last.prev.call.cleared
      /\ last.args = last.prev.call.args) =>
       /\ sel.recomputations = last.pre.recomputations
       /\ Selector1After.recomputations = Selector1Before.recomputations
       /\ last.error = NoError
       /\ last.value = last.prev.call.value
  /\ (Chained /\ RanDependencies /\ Selector1Cached) =>
       /\ Selector1After.recomputations = Selector1Before.recomputations
       /\ InputLog[1].error = NoError
       /\ InputLog[1].value =
            MemoLookup(Selector1Before.resultFuncCache, Selector1Before.finalMemoizeOptions,
                       Selector1Inputs.values).value
       /\ (last.prev.ret.done /\ InputResults = last.prev.ret.args) =>
            /\ ResultLog = <<>>
            /\ sel.recomputations = last.pre.recomputations
            /\ last.value = last.prev.ret.value

\* selector2(state1) returned an object; selector2(state2), state2 another
\* state with the same a and b, called selector1 with state2, which returned
\* the object it had cached; neither result function was invoked again.
C35_Witness ==
  /\ Chained
  /\ RanDependencies
  /\ Selector1Cached
  /\ last.prev.call.done
  /\ last.prev.call.args = <<Obj(1)>>
  /\ last.args = <<Obj(2)>>
  /\ ResultLog = <<>>
  /\ last.value.t = "object"
  /\ last.value = last.prev.call.value
  /\ sel.recomputations = 1
  /\ Selector1After.recomputations = 1
  /\ Selector1After.selectorCache[1].key = <<Obj(2)>>

\* The dependencies of the output selector st do not hold selector1.
Independent(st) == st.selector1 # <<>> /\ selector1 \notin Range(st.dependencies)

\* What the output selector st closes over, without selector1.
Own(st) == [st EXCEPT !.selector1 = <<>>]

OnSelector2 == last.op \in {"call", "clearCache", "resetRecomputations"}
OnSelector1 == last.op \in {"call1", "clearCache1", "resetRecomputations1"}

\* C36. Two output selectors of one selector creator, selector1 and selector2,
\* selector2 not holding selector1 as a dependency.  A call, a clearCache() or
\* a resetRecomputations() of selector2 leaves the caches, recomputations(),
\* lastResult() and the first-run flag of selector1 as they were, and so does
\* each of these on selector1 for selector2; a call of selector2 ends as it
\* would without selector1.  setInputStabilityCheckEnabled changes the global
\* setting and neither selector.
C36_Isolation ==
  /\ (OnSelector2 /\ Independent(last.pre)) =>
       sel.selector1 = last.pre.selector1
  /\ (Called /\ Independent(last.pre)) =>
       LET alone(r) == /\ Own(sel) = r.st
                       /\ last.error = r.error
                       /\ last.value = r.value
                       /\ last.log = r.log
       IN  alone(selector(Own(last.pre), last.heap, last.args, globalStabilityCheck,
                          production))
  /\ OnSelector1 => Own(sel) = Own(last.pre)
  /\ (last.op = "setInputStabilityCheckEnabled" /\ last.pre.selector1 # <<>>) =>
       sel = last.pre

\* selector1 and selector2 are made of the same input selectors and result
\* function; selector1(state1) was called, then selector2(state1): selector2
\* invoked its own result function and holds an object of its own, the first
\* run of selector2 ran the stability check, and selector1 is as it was.
C36_Witness ==
  /\ Called
  /\ Independent(last.pre)
  /\ last.pre.dependencies = Selector1Before.dependencies
  /\ last.pre.resultFunc = Selector1Before.resultFunc
  /\ Selector1Before.recomputations = 1
  /\ Selector1Before.selectorCache # EmptyCache
  /\ Selector1Before.selectorCache[1].key = last.args
  /\ ~Selector1Before.firstRun
  /\ last.pre.firstRun
  /\ CheckRan
  /\ ResultLog # <<>>
  /\ sel.recomputations = 1
  /\ sel.lastResult # Selector1After.lastResult
  /\ Selector1After = Selector1Before

====
